---- MODULE Spec2Model ----
(***************************************************************************)
(* A model of the form-filler PDF generators                               *)
(* (src/src/pdf/acknowledgment_pdf.py, src/src/pdf/transfer_pdf.py) and of *)
(* the Generate action of the two GUI forms.                               *)
(*                                                                         *)
(* Strings are sequences of one-character strings.  Lengths on the page    *)
(* are integers in units of 1/127000 point, in which the A4 page size      *)
(* (210 mm x 297 mm at 72/25.4 points per mm), every multiple of 0.01 inch *)
(* and every Helvetica string width at an integer font size are exact.     *)
(***************************************************************************)
EXTENDS Integers, Sequences, FiniteSets, TLC

(***************************************************************************)
(* Bounds of the model.                                                    *)
(***************************************************************************)
\* Largest number of items of an Acknowledgment submission in the layout
\* scenarios: 33 items fill two pages and start a third.
MaxItems == 33
\* Largest number of assets of a Transfer submission in the layout scenarios:
\* from 24 assets on the table runs off the page.
MaxAssets == 25
\* Number of Generate presses and generate() calls of one run in the
\* file-naming scenarios.
MaxCalls == 3
\* Number of Generate presses and generate() calls of one run in the layout
\* scenarios.
MaxLayoutCalls == 1
\* Number of generate() calls (one per thread) in the concurrent scenario.
MaxRaceCalls == 2
\* Number of generate() calls of one run in the failure scenarios.
MaxFailCalls == 2
\* Number of generate() calls of one run in the logo scenarios.
MaxLogoCalls == 2
\* Largest number of rows the Add button is pressed up to in the form
\* scenarios.
MaxFormRows == 3
\* Number of presses of Generate in the form-submission scenarios.
MaxGenerateCalls == 2
\* Largest length of a typed field in the filename scenarios.
MaxFieldLen == 2
\* Largest number of words of a paragraph in the text scenarios.
MaxWords == 3
\* Largest length of a text given to _truncate_text in the text scenarios.
MaxTextLen == 4
\* Largest length of a table cell's text in the text scenarios: the widest
\* column holds 41 characters.
MaxCellLen == 43

(***************************************************************************)
(* Strings.                                                                *)
(***************************************************************************)
S_Unknown == <<"U", "n", "k", "n", "o", "w", "n">>
S_Asset == <<"A", "s", "s", "e", "t">>
S_AckMid == <<" ", "-", " ", "a", "c", "k", "n", "o", "w", "l", "e", "d", "g", "e", "m", "e", "n", "t", " ", "f", "o", "r", "m", " ">>
S_Dash == <<" ", "-", " ">>
S_Pdf == <<".", "p", "d", "f">>
S_TrHead == <<"A", "s", "s", "e", "t", " ", "T", "r", "a", "n", "s", "f", "e", "r", " ", "-", " ", "F", "r", "o", "m", " ">>
S_To == <<" ", "t", "o", " ">>
S_Hyphen == <<"-">>
S_CounterOpen == <<" ", "(", "#">>
S_CounterClose == <<")", ".", "p", "d", "f">>
invalid_chars == <<"<", ">", ":", "\"", "/", "\\", "|", "?", "*">>

Whitespace == {" ", "\t", "\n"}

RECURSIVE LStrip(_)
LStrip(s) ==
  IF s # <<>> /\ Head(s) \in Whitespace THEN LStrip(Tail(s)) ELSE s

RECURSIVE RStrip(_)
RStrip(s) ==
  IF s # <<>> /\ s[Len(s)] \in Whitespace
    THEN RStrip(SubSeq(s, 1, Len(s) - 1))
    ELSE s

\* str.strip()
Strip(s) == RStrip(LStrip(s))

\* x or default with the default never taken
OrElseKeepsEmpty(s, default) == s

\* x or default, for strings: the empty string is falsy
OrElse(s, default) == IF s = <<>> THEN default ELSE s

\* dict.get(key, default)
Get(d, key, default) == IF key \in DOMAIN d THEN d[key] ELSE default

\* s.replace(char, '_')
ReplaceChar(s, char) == [i \in 1..Len(s) |-> IF s[i] = char THEN "_" ELSE s[i]]

\* for char in invalid_chars: s = s.replace(char, '_'), from character k on
RECURSIVE CleanFrom(_, _)
CleanFrom(s, k) ==
  IF k > Len(invalid_chars) THEN s
  ELSE CleanFrom(ReplaceChar(s, invalid_chars[k]), k + 1)

\* the loop over invalid_chars[1:]: '<' is left in place
CleanSkipsFirst(s) == CleanFrom(s, 2)

Clean(s) == CleanFrom(s, 1)

Digit(d) == <<"0", "1", "2", "3", "4", "5", "6", "7", "8", "9">>[d + 1]

\* str(n) for n >= 0
RECURSIVE Str(_)
Str(n) == IF n < 10 THEN <<Digit(n)>> ELSE Str(n \div 10) \o <<Digit(n % 10)>>

(***************************************************************************)
(* Filename Resolver.                                                      *)
(***************************************************************************)
\* asset_name[:30]
AssetNameLimit == 30

AckAssetName(form_data) ==
  LET items == Get(form_data, "items", <<>>)
  IN  IF items # <<>> /\ Get(items[1], "description", <<>>) # <<>>
        THEN LET asset_name == Strip(Get(items[1], "description", <<>>))
             IN  IF Len(asset_name) > AssetNameLimit
                   THEN SubSeq(asset_name, 1, AssetNameLimit)
                   ELSE asset_name
        ELSE S_Asset

Ack_generate_filename(form_data) ==
  LET emp_id == OrElse(Strip(Get(form_data, "emp_id", <<>>)), S_Unknown)
      name == OrElse(Strip(Get(form_data, "custodian_name", <<>>)), S_Unknown)
      asset_name == AckAssetName(form_data)
  IN  Clean(emp_id) \o S_Dash \o Clean(name) \o S_AckMid \o Clean(asset_name)
        \o S_Pdf

Tr_generate_filename(form_data) ==
  LET from_emp_id == OrElse(Strip(Get(form_data, "from_emp_id", <<>>)), S_Unknown)
      from_name == OrElse(Strip(Get(form_data, "from_name", <<>>)), S_Unknown)
      to_emp_id == OrElse(Strip(Get(form_data, "to_emp_id", <<>>)), S_Unknown)
      to_name == OrElse(Strip(Get(form_data, "to_name", <<>>)), S_Unknown)
  IN  S_TrHead \o Clean(from_emp_id) \o S_Hyphen \o Clean(from_name) \o S_To
        \o Clean(to_emp_id) \o S_Hyphen \o Clean(to_name) \o S_Pdf

generate_filename(form, form_data) ==
  IF form = "ack" THEN Ack_generate_filename(form_data)
  ELSE Tr_generate_filename(form_data)

\* filename[:-3]: the dot of the suffix is kept
BaseNameKeepsDot(filename) == SubSeq(filename, 1, Len(filename) - 3)

\* filename[:-4]
BaseName(filename) == SubSeq(filename, 1, Len(filename) - 4)

\* the first counter the probe loop tries
FirstCounter == 2

\* f"{base_name} ({counter}).pdf": the counter without its '#'
NewFilenameNoHash(base_name, counter) ==
  base_name \o <<" ", "(">> \o Str(counter) \o S_CounterClose

\* f"{base_name} (#{counter}).pdf"
NewFilename(base_name, counter) ==
  base_name \o S_CounterOpen \o Str(counter) \o S_CounterClose

(***************************************************************************)
(* Page geometry (reportlab.lib.units.inch, reportlab.lib.pagesizes.A4).   *)
(***************************************************************************)
\* one point
Pt == 127000
\* inch = 72 points
Inch == 72 * Pt
\* h hundredths of an inch: In(60) is 0.6 * inch
In(h) == h * (Inch \div 100)
\* A4 = (210 mm, 297 mm), 1 mm = 72 / 25.4 points
PageWidth == 210 * 360000
PageHeight == 297 * 360000

Forms == {"ack", "tr"}

\* self.margin, self.bottom_margin
Margin(f) == IF f = "ack" THEN In(60) ELSE In(75)
AckBottomMargin == In(50)

\* y = self.height - self.margin
TopOfPage(f) == PageHeight - Margin(f)

\* the table of each form: col_widths, row_height, header_height
ColWidths(f) ==
  IF f = "ack" THEN <<In(35), In(110), In(320), In(45), In(110)>>
  ELSE <<In(35), In(100), In(130), In(230), In(115)>>
\* row_height of the Acknowledgment table for either form
RowHeightOfAck(f) == In(32)
RowHeight(f) == IF f = "ack" THEN In(32) ELSE In(30)
HeaderHeight(f) == IF f = "ack" THEN In(40) ELSE In(35)
\* the keys of a row shown in columns 1..4 (column 0 is the row number)
ColKeys(f) ==
  IF f = "ack" THEN <<"store_code", "description", "qty", "purchase_date">>
  ELSE <<"store_code", "asset_name", "description", "old_asset_no">>
\* the key of form_data that holds the rows
RowsKey(f) == IF f = "ack" THEN "items" ELSE "assets"

\* the reserve below the table: a row must end at or above it (Acknowledgment)
AckTableFloor == AckBottomMargin + In(400)
\* remaining_content_height = 4.5 * inch
RemainingContentHeight == In(450)
\* the least cursor of _draw_signature taken as half an inch
SignatureMinYLow(f) == In(50)
\* the thresholds of _draw_signature: y < 1.3 * inch, y < 1.5 * inch
SignatureMinY(f) == IF f = "ack" THEN In(130) ELSE In(150)
\* box_height of the signature box
BoxHeight(f) == IF f = "ack" THEN In(100) ELSE In(90)
BoxWidth == In(220)

\* max_chars = int(width / 5)
MaxCharsOfFive(width) == width \div (5 * Pt)

\* max_chars = int(width / 5.5), width in points
MaxChars(width) == (2 * width) \div (11 * Pt)

\* text[:max_chars] when len(text) > max_chars and col != 0
CellText(text, width) ==
  IF Len(text) > MaxChars(width) THEN SubSeq(text, 1, MaxChars(width)) ELSE text

(***************************************************************************)
(* Text Fitter: string widths of the standard Helvetica fonts (glyph       *)
(* widths in 1/1000 of the font size) and the greedy word wrap.            *)
(***************************************************************************)
HelveticaGlyph(ch) ==
  CASE ch = "'" -> 191
    [] ch \in {"i", "j", "l"} -> 222
    [] ch \in {" ", "f", "t", ".", ",", "/", "I"} -> 278
    [] ch \in {"r", "(", ")", "-"} -> 333
    [] ch \in {"c", "k", "s", "v", "x", "y", "z", "J"} -> 500
    [] ch \in {"a", "b", "d", "e", "g", "h", "n", "o", "p", "q", "u", "L",
               "0", "1", "2", "3", "4", "5", "6", "7", "8", "9"} -> 556
    [] ch \in {"F", "T", "Z"} -> 611
    [] ch \in {"A", "B", "E", "K", "P", "S", "V", "X", "Y"} -> 667
    [] ch \in {"C", "D", "H", "N", "R", "U", "w"} -> 722
    [] ch \in {"G", "O", "Q"} -> 778
    [] ch \in {"M", "m"} -> 833
    [] ch = "W" -> 944

HelveticaBoldGlyph(ch) ==
  CASE ch = "'" -> 238
    [] ch \in {" ", "i", "j", "l", ".", ",", "/", "I"} -> 278
    [] ch \in {"f", "t", "(", ")", "-"} -> 333
    [] ch = "r" -> 389
    [] ch = "z" -> 500
    [] ch \in {"a", "c", "e", "k", "s", "v", "x", "y", "J",
               "0", "1", "2", "3", "4", "5", "6", "7", "8", "9"} -> 556
    [] ch \in {"b", "d", "g", "h", "n", "o", "p", "q", "u", "F", "L", "T",
               "Z"} -> 611
    [] ch \in {"E", "P", "S", "V", "X", "Y"} -> 667
    [] ch \in {"A", "B", "C", "D", "H", "K", "N", "R", "U"} -> 722
    [] ch \in {"G", "O", "Q", "w"} -> 778
    [] ch = "M" -> 833
    [] ch = "m" -> 889
    [] ch = "W" -> 944

Glyph(ch, font_name) ==
  IF font_name \in {"Helvetica-Bold", "Helvetica-BoldOblique"}
    THEN HelveticaBoldGlyph(ch)
    ELSE HelveticaGlyph(ch)

\* the glyph widths of text[a..b], summed
RECURSIVE GlyphSum(_, _, _, _)
GlyphSum(text, a, b, font_name) ==
  IF a > b THEN 0
  ELSE IF a = b THEN Glyph(text[a], font_name)
  ELSE LET m == (a + b) \div 2
       IN  GlyphSum(text, a, m, font_name) + GlyphSum(text, m + 1, b, font_name)

\* c.stringWidth(text, font_name, font_size)
stringWidth(text, font_name, font_size) ==
  GlyphSum(text, 1, Len(text), font_name) * font_size * (Pt \div 1000)

\* " ".join(words)
RECURSIVE Join(_)
Join(words) ==
  IF words = <<>> THEN <<>>
  ELSE IF Len(words) = 1 THEN words[1]
  ELSE words[1] \o <<" ">> \o Join(Tail(words))

\* the word-wrap loop from word k on: lines closed so far, the current line
RECURSIVE WrapFrom(_, _, _, _, _, _, _)
WrapFrom(words, k, lines, current_line, font_name, font_size, max_width) ==
  IF k > Len(words)
    THEN IF current_line # <<>> THEN Append(lines, Join(current_line))
         ELSE lines
    ELSE LET word == words[k]
             test_line == Join(Append(current_line, word))
         IN  IF stringWidth(test_line, font_name, font_size) > max_width
               THEN WrapFrom(words, k + 1, Append(lines, Join(current_line)),
                             <<word>>, font_name, font_size, max_width)
               ELSE WrapFrom(words, k + 1, lines, Append(current_line, word),
                             font_name, font_size, max_width)

\* the loop entered at the second word
WordWrapSkipsFirst(words, font_name, font_size, max_width) ==
  WrapFrom(words, 2, <<>>, <<>>, font_name, font_size, max_width)

WordWrap(words, font_name, font_size, max_width) ==
  WrapFrom(words, 1, <<>>, <<>>, font_name, font_size, max_width)

S_Ellipsis == <<".", ".", ".">>

\* the loop of _truncate_text that keeps the last character whatever the
\* width: text[:-1] is never taken
TruncateLoopKeepsAll(text, max_width, font_name, font_size) == text

\* _truncate_text: while len(text) > 0 and the text with "..." is too wide,
\* text = text[:-1]
RECURSIVE TruncateLoop(_, _, _, _)
TruncateLoop(text, max_width, font_name, font_size) ==
  IF Len(text) > 0
       /\ stringWidth(text \o S_Ellipsis, font_name, font_size) > max_width
    THEN TruncateLoop(SubSeq(text, 1, Len(text) - 1), max_width, font_name,
                      font_size)
    ELSE text

\* _truncate_text as a loop that stops one character early
truncate_text_one_more(text, max_width, font_name, font_size) ==
  IF text = <<>> THEN <<>>
  ELSE IF stringWidth(text, font_name, font_size) <= max_width THEN text
  ELSE LET cut == TruncateLoop(text, max_width, font_name, font_size)
       IN  IF cut # <<>> /\ Len(cut) < Len(text)
             THEN SubSeq(text, 1, Len(cut) + 1) \o S_Ellipsis
             ELSE <<>>

\* _truncate_text
truncate_text(text, max_width, font_name, font_size) ==
  IF text = <<>> THEN <<>>
  ELSE IF stringWidth(text, font_name, font_size) <= max_width THEN text
  ELSE LET cut == TruncateLoop(text, max_width, font_name, font_size)
       IN  IF cut # <<>> THEN cut \o S_Ellipsis ELSE <<>>

\* the declaration paragraph of the Acknowledgment form, text.split()
DeclarationWords ==
  << <<"I">>,
     <<"c", "o", "n", "f", "i", "r", "m">>,
     <<"t", "h", "a", "t">>,
     <<"t", "h", "i", "s">>,
     <<"d", "e", "v", "i", "c", "e", "(", "s", ")">>,
     <<"i", "s">>,
     <<"a">>,
     <<"p", "r", "o", "p", "e", "r", "t", "y">>,
     <<"o", "f">>,
     <<"A", "j", "m", "a", "n">>,
     <<"U", "n", "i", "v", "e", "r", "s", "i", "t", "y">>,
     <<"a", "n", "d">>,
     <<"t", "o">>,
     <<"b", "e">>,
     <<"r", "e", "t", "u", "r", "n", "e", "d">>,
     <<"b", "a", "c", "k">>,
     <<"t", "o">>,
     <<"A", "U">>,
     <<"S", "t", "o", "r", "e">>,
     <<"a", "f", "t", "e", "r">>,
     <<"u", "s", "a", "g", "e", ".">>,
     <<"T", "h", "i", "s">>,
     <<"d", "e", "v", "i", "c", "e", "(", "s", ")">>,
     <<"c", "a", "n", "'", "t">>,
     <<"b", "e">>,
     <<"s", "h", "i", "f", "t", "e", "d">>,
     <<"t", "o">>,
     <<"a", "n", "y">>,
     <<"o", "t", "h", "e", "r">>,
     <<"u", "s", "e", "r", "/", "l", "o", "c", "a", "t", "i", "o", "n">>,
     <<"w", "i", "t", "h", "o", "u", "t">>,
     <<"a">>,
     <<"w", "r", "i", "t", "t", "e", "n">>,
     <<"a", "p", "p", "r", "o", "v", "a", "l">>,
     <<"f", "r", "o", "m">>,
     <<"t", "h", "e">>,
     <<"S", "t", "o", "r", "e", ".">> >>

\* the Office Device paragraph, office_text.split()
OfficeWords ==
  << <<"I">>,
     <<"u", "n", "d", "e", "r", "s", "t", "a", "n", "d">>,
     <<"t", "h", "a", "t">>,
     <<"I">>,
     <<"w", "i", "l", "l">>,
     <<"b", "e">>,
     <<"r", "e", "s", "p", "o", "n", "s", "i", "b", "l", "e">>,
     <<"f", "o", "r">>,
     <<"a", "n", "y">>,
     <<"m", "i", "s", "u", "s", "e">>,
     <<"o", "r">>,
     <<"d", "a", "m", "a", "g", "e", "s">>,
     <<"t", "h", "a", "t">>,
     <<"m", "a", "y">>,
     <<"o", "c", "c", "u", "r", ".">>,
     <<"I">>,
     <<"c", "o", "n", "f", "i", "r", "m">>,
     <<"t", "h", "a", "t">>,
     <<"t", "h", "i", "s">>,
     <<"d", "e", "v", "i", "c", "e", "(", "s", ")">>,
     <<"w", "i", "l", "l">>,
     <<"b", "e">>,
     <<"u", "s", "e", "d">>,
     <<"f", "o", "r">>,
     <<"w", "o", "r", "k">>,
     <<"p", "u", "r", "p", "o", "s", "e">>,
     <<"o", "n", "l", "y", ".">> >>

AckDeclarationLines ==
  WordWrap(DeclarationWords, "Helvetica-BoldOblique", 9,
           PageWidth - 2 * Margin("ack"))
AckOfficeLines ==
  WordWrap(OfficeWords, "Helvetica", 8,
           PageWidth - 2 * Margin("ack") - In(40))

(***************************************************************************)
(* State.                                                                  *)
(***************************************************************************)
Threads == {1, 2}

\* filename = None
None == <<"None">>
\* self.sig_field_rect = None
NoRect == <<>>

VARIABLES
  files,          \* the output directory: file name -> the document written
  logo_exists,    \* os.path.exists(get_logo_path())
  item_widgets,   \* self.item_widgets / self.asset_widgets of each form: the
                  \* texts of the entries of each row on screen
  sig_field_rect, \* self.sig_field_rect of the generator instance of each form
  ncalls,         \* Generate presses and generate() calls started so far
  history,        \* the generate() calls that returned, in order: what each
                  \* was given and the path it returned
  gui_msg,        \* the message box last shown by a form's Generate action
  pc,             \* the position of each thread in generate()
  via,            \* who called generate(): "gui" or "api"
  callno,         \* the number of the thread's generate() call
  form,           \* the generator of the call: "ack" or "tr"
  data,           \* form_data
  filename,       \* filename
  counter,        \* counter of _get_unique_filepath
  filepath,       \* filepath
  y,              \* the layout cursor y
  page,           \* c.showPage() calls so far: the index of the current page
  row_num,        \* row_num of the table loop
  ops             \* what the call has drawn on its canvas, in order

vars ==
  <<files, logo_exists, item_widgets, sig_field_rect, ncalls, history,
    gui_msg, pc, via, callno, form, data, filename, counter, filepath, y,
    page, row_num, ops>>

\* a record of ops: what was drawn, on which page, between which heights,
\* and for a table row the texts drawn in its cells
Entry(op, pg, top, bottom, text) ==
  [op |-> op, page |-> pg, top |-> top, bottom |-> bottom, text |-> text]

\* data.get("items", []) / data.get("assets", [])
Rows(f, d) == Get(d, RowsKey(f), <<>>)

\* num_rows = len(items): no blank row for an empty table
NumRowsNoBlank(rows) == Len(rows)

\* num_rows = max(len(items), 3): short tables padded with blank rows
NumRowsPadded(rows) == IF Len(rows) < 3 THEN 3 ELSE Len(rows)

\* num_rows = len(items) if items else 1
NumRows(rows) == IF rows # <<>> THEN Len(rows) ELSE 1

(***************************************************************************)
(* generate(): filename, output directory, unique path.                    *)
(***************************************************************************)
Call(t, f, d, override, caller, maxCalls) ==
  /\ pc[t] = "idle"
  /\ ncalls < maxCalls
  /\ ncalls' = ncalls + 1
  /\ callno' = [callno EXCEPT ![t] = ncalls + 1]
  /\ via' = [via EXCEPT ![t] = caller]
  /\ form' = [form EXCEPT ![t] = f]
  /\ data' = [data EXCEPT ![t] = d]
  /\ filename' = [filename EXCEPT ![t] =
                    IF override = None THEN generate_filename(f, d)
                    ELSE override]
  /\ counter' = [counter EXCEPT ![t] = 0]
  /\ filepath' = [filepath EXCEPT ![t] = <<>>]
  /\ y' = [y EXCEPT ![t] = 0]
  /\ page' = [page EXCEPT ![t] = 0]
  /\ row_num' = [row_num EXCEPT ![t] = 0]
  /\ ops' = [ops EXCEPT ![t] = <<>>]
  /\ pc' = [pc EXCEPT ![t] = "probe"]
  /\ UNCHANGED <<files, logo_exists, item_widgets, sig_field_rect, history, gui_msg>>

\* generate(form_data, filename) called directly
ApiCall(t, inputs, maxCalls) ==
  \E i \in inputs : Call(t, i.form, i.data, i.filename, "api", maxCalls)

\* _get_items / _get_assets that keeps the rows that are entirely empty
get_rows_unfiltered(f, widgets) ==
  [i \in 1..Len(widgets) |->
     [k \in {ColKeys(f)[c] : c \in 1..4} |-> Strip(widgets[i][k])]]

\* _get_items / _get_assets: the rows of the form, stripped, without the
\* rows that are entirely empty
RECURSIVE get_rows(_, _)
get_rows(f, widgets) ==
  IF widgets = <<>> THEN <<>>
  ELSE LET w == Head(widgets)
           row == [k \in {ColKeys(f)[c] : c \in 1..4} |-> Strip(w[k])]
           rest == get_rows(f, Tail(widgets))
       IN  IF \E k \in DOMAIN row : row[k] # <<>> THEN <<row>> \o rest
           ELSE rest

\* the form_data a form builds in _generate_pdf
GuiFormData(f, g, rows) ==
  IF f = "ack"
    THEN [items |-> rows,
          custodian_name |-> Strip(g.name),
          emp_id |-> Strip(g.emp_id)]
    ELSE [assets |-> rows,
          from_name |-> Strip(g.name),
          from_emp_id |-> Strip(g.emp_id),
          to_name |-> Strip(g.to_name),
          to_emp_id |-> Strip(g.to_emp_id)]

\* _generate_pdf: the Generate button of a form
GuiGenerate(t, guis, maxCalls) ==
  \E g \in guis :
    LET rows == get_rows(g.form, g.widgets)
    IN  IF rows = <<>>
          THEN /\ pc[t] = "idle"
               /\ ncalls < maxCalls
               /\ ncalls' = ncalls + 1
               /\ gui_msg' = "warning"
               /\ UNCHANGED <<files, logo_exists, item_widgets, sig_field_rect,
                              history, pc, via, callno, form, data, filename,
                              counter, filepath, y, page, row_num, ops>>
          ELSE Call(t, g.form, GuiFormData(g.form, g, rows), None, "gui",
                    maxCalls)

\* what a step of _get_unique_filepath leaves alone
ProbeFrame ==
  UNCHANGED <<files, logo_exists, item_widgets, sig_field_rect, ncalls, history, gui_msg,
              via, callno, form, data, filename, y, page, row_num, ops>>

\* the probe of the name itself, with the existence test left out of the
\* counter loop that follows: the first numbered name is taken as it is
ProbeFirstNumbered(t) ==
  /\ pc[t] = "probe"
  /\ filepath' = [filepath EXCEPT ![t] =
                    IF filename[t] \notin DOMAIN files THEN filename[t]
                    ELSE NewFilename(BaseName(filename[t]), FirstCounter)]
  /\ pc' = [pc EXCEPT ![t] = "header"]
  /\ UNCHANGED counter
  /\ ProbeFrame

\* _get_unique_filepath: the probe of the name itself
Probe(t) ==
  /\ pc[t] = "probe"
  /\ IF filename[t] \notin DOMAIN files
       THEN /\ filepath' = [filepath EXCEPT ![t] = filename[t]]
            /\ pc' = [pc EXCEPT ![t] = "header"]
            /\ UNCHANGED counter
       ELSE /\ counter' = [counter EXCEPT ![t] = FirstCounter]
            /\ pc' = [pc EXCEPT ![t] = "probe_loop"]
            /\ UNCHANGED filepath
  /\ ProbeFrame

\* one turn of the while loop that probes the same name again after a hit
ProbeLoopRepeats(t) ==
  /\ pc[t] = "probe_loop"
  /\ LET new_filename == NewFilename(BaseName(filename[t]), counter[t])
     IN  IF new_filename \notin DOMAIN files
           THEN /\ filepath' = [filepath EXCEPT ![t] = new_filename]
                /\ pc' = [pc EXCEPT ![t] = "header"]
                /\ UNCHANGED counter
           ELSE UNCHANGED <<counter, filepath, pc>>
  /\ ProbeFrame

\* _get_unique_filepath: one turn of the while loop
ProbeLoop(t) ==
  /\ pc[t] = "probe_loop"
  /\ LET new_filename == NewFilename(BaseName(filename[t]), counter[t])
     IN  IF new_filename \notin DOMAIN files
           THEN /\ filepath' = [filepath EXCEPT ![t] = new_filename]
                /\ pc' = [pc EXCEPT ![t] = "header"]
                /\ UNCHANGED counter
           ELSE /\ counter' = [counter EXCEPT ![t] = counter[t] + 1]
                /\ UNCHANGED <<filepath, pc>>
  /\ ProbeFrame

(***************************************************************************)
(* _draw_form: the Layout Engine.                                          *)
(***************************************************************************)
\* a drawing step of thread t: the next position, cursor, page and row
\* number, and what it draws
Draw(t, next, new_y, new_page, new_row, entries) ==
  /\ pc' = [pc EXCEPT ![t] = next]
  /\ y' = [y EXCEPT ![t] = new_y]
  /\ page' = [page EXCEPT ![t] = new_page]
  /\ row_num' = [row_num EXCEPT ![t] = new_row]
  /\ ops' = [ops EXCEPT ![t] = ops[t] \o entries]
  /\ UNCHANGED <<files, logo_exists, item_widgets, ncalls, history, gui_msg, via, callno,
                 form, data, filename, counter, filepath>>

\* the heights of _draw_header below its y: the titles, and the y returned
HeaderTitles(f) ==
  IF f = "ack" THEN <<In(110), In(145)>> ELSE <<In(110), In(160), In(190)>>
HeaderDrop(f) == IF f = "ack" THEN In(185) ELSE In(240)

\* _draw_header with the room of the logo taken only when the logo is drawn
DrawHeaderLogoShifts(t) ==
  /\ pc[t] = "header"
  /\ \E logo_drawn \in (IF logo_exists THEN {TRUE, FALSE} ELSE {FALSE}) :
       LET f == form[t]
           y0 == IF logo_drawn THEN TopOfPage(f) ELSE TopOfPage(f) + In(90)
           logo == IF logo_drawn
                     THEN <<Entry("logo", 0, y0, y0 - In(90), <<>>)>>
                     ELSE <<>>
           titles == [i \in 1..Len(HeaderTitles(f)) |->
                        Entry("title", 0, y0 - HeaderTitles(f)[i],
                              y0 - HeaderTitles(f)[i], <<>>)]
       IN  Draw(t, "date", y0 - HeaderDrop(f), 0, 0, logo \o titles)
  /\ UNCHANGED sig_field_rect

\* _draw_header; the logo is drawn if its file exists and drawImage does not
\* raise
DrawHeader(t) ==
  /\ pc[t] = "header"
  /\ \E logo_drawn \in (IF logo_exists THEN {TRUE, FALSE} ELSE {FALSE}) :
       LET f == form[t]
           y0 == TopOfPage(f)
           logo == IF logo_drawn
                     THEN <<Entry("logo", 0, y0, y0 - In(90), <<>>)>>
                     ELSE <<>>
           titles == [i \in 1..Len(HeaderTitles(f)) |->
                        Entry("title", 0, y0 - HeaderTitles(f)[i],
                              y0 - HeaderTitles(f)[i], <<>>)]
       IN  Draw(t, "date", y0 - HeaderDrop(f), 0, 0, logo \o titles)
  /\ UNCHANGED sig_field_rect

\* _draw_date
DrawDate(t) ==
  /\ pc[t] = "date"
  /\ LET f == form[t]
         top == IF f = "ack" THEN y[t] + In(38) ELSE y[t] + In(135)
         bottom == IF f = "ack" THEN y[t] + In(10) ELSE y[t] + In(105)
     IN  Draw(t, IF f = "ack" THEN "table" ELSE "from", y[t], page[t], 0,
              <<Entry("date", page[t], top, bottom, <<>>)>>)
  /\ UNCHANGED sig_field_rect

\* the height of _draw_transferred_from and _draw_transferred_to:
\* 0.32 + 0.35 + 0.4 inch
PartyDrop == In(32) + In(35) + In(40)

\* _draw_transferred_from
DrawTransferredFrom(t) ==
  /\ pc[t] = "from"
  /\ form[t] = "tr"
  /\ Draw(t, "table", y[t] - PartyDrop, page[t], 0,
          <<Entry("from", page[t], y[t], y[t] - In(67) - In(8), <<>>)>>)
  /\ UNCHANGED sig_field_rect

(***************************************************************************)
(* _draw_items_table / _draw_assets_table: Table Flow.                     *)
(***************************************************************************)
HeaderEntry(f, pg, top) == Entry("header", pg, top, top - HeaderHeight(f), <<>>)

\* the header row of the table
DrawTableHeader(t) ==
  /\ pc[t] = "table"
  /\ LET f == form[t]
     IN  Draw(t, "rows", y[t] - HeaderHeight(f), page[t], 0,
              <<HeaderEntry(f, page[t], y[t])>>)
  /\ UNCHANGED sig_field_rect

\* the check without the row height: y < bottom_margin + 4 inch
PageBreakLate(f, cursor) == f = "ack" /\ cursor < AckTableFloor

\* the check applied to the table of either form
PageBreakAnyForm(f, cursor) == cursor - RowHeight(f) < AckTableFloor

\* the page-break check before a row: only the Acknowledgment table has one
PageBreakBeforeRow(f, cursor) ==
  f = "ack" /\ cursor - RowHeight(f) < AckTableFloor

\* the texts drawn in the cells of row row_num (from 0): its number, then its
\* four fields, cut to the column; nothing for the blank row of an empty table
RowTexts(f, rows, n) ==
  IF n < Len(rows)
    THEN <<Str(n + 1)>> \o
         [c \in 1..4 |->
            CellText(Get(rows[n + 1], ColKeys(f)[c], <<>>), ColWidths(f)[c + 1])]
    ELSE <<>>

\* one turn of the row loop that starts the new page and goes on with the
\* row, the header row not redrawn
DrawTableRowNoHeader(t) ==
  /\ pc[t] = "rows"
  /\ LET f == form[t]
         rows == Rows(f, data[t])
         break == PageBreakBeforeRow(f, y[t])
         pg == IF break THEN page[t] + 1 ELSE page[t]
         top == IF break THEN TopOfPage(f) ELSE y[t]
         fresh == IF break THEN <<Entry("showPage", page[t], 0, 0, <<>>)>>
                  ELSE <<>>
         row == Entry("row", pg, top, top - RowHeight(f),
                      RowTexts(f, rows, row_num[t]))
     IN  /\ row_num[t] < NumRows(rows)
         /\ Draw(t, "rows", top - RowHeight(f), pg, row_num[t] + 1,
                 fresh \o <<row>>)
  /\ UNCHANGED sig_field_rect

\* one turn of the row loop
DrawTableRow(t) ==
  /\ pc[t] = "rows"
  /\ LET f == form[t]
         rows == Rows(f, data[t])
         break == PageBreakBeforeRow(f, y[t])
         pg == IF break THEN page[t] + 1 ELSE page[t]
         top == IF break THEN TopOfPage(f) - HeaderHeight(f) ELSE y[t]
         fresh == IF break
                    THEN <<Entry("showPage", page[t], 0, 0, <<>>),
                           HeaderEntry(f, pg, TopOfPage(f))>>
                    ELSE <<>>
         row == Entry("row", pg, top, top - RowHeight(f),
                      RowTexts(f, rows, row_num[t]))
     IN  /\ row_num[t] < NumRows(rows)
         /\ Draw(t, "rows", top - RowHeight(f), pg, row_num[t] + 1,
                 fresh \o <<row>>)
  /\ UNCHANGED sig_field_rect

\* the gap below the table: 0.25 inch, 0.3 inch
TableGap(f) == IF f = "ack" THEN In(25) ELSE In(30)

\* the end of the row loop: the table returns its cursor
EndTable(t) ==
  /\ pc[t] = "rows"
  /\ LET f == form[t]
     IN  /\ row_num[t] = NumRows(Rows(f, data[t]))
         /\ Draw(t, IF f = "ack" THEN "page_check" ELSE "to",
                 y[t] - TableGap(f), page[t], row_num[t], <<>>)
  /\ UNCHANGED sig_field_rect

(***************************************************************************)
(* The sections below the table.                                           *)
(***************************************************************************)
\* the check without the space needed: y < self.bottom_margin
NeedsPageBreakNoBudget(cursor, needed_space) == cursor < AckBottomMargin

\* _check_page_break: y - needed_space < self.bottom_margin
NeedsPageBreak(cursor, needed_space) == cursor - needed_space < AckBottomMargin

\* the page-break check of _draw_form before the custodian details
AckPageCheck(t) ==
  /\ pc[t] = "page_check"
  /\ form[t] = "ack"
  /\ IF NeedsPageBreak(y[t], RemainingContentHeight)
       THEN Draw(t, "custodian", TopOfPage("ack"), page[t] + 1, row_num[t],
                 <<Entry("showPage", page[t], 0, 0, <<>>)>>)
       ELSE Draw(t, "custodian", y[t], page[t], row_num[t], <<>>)
  /\ UNCHANGED sig_field_rect

\* _draw_custodian_details: 0.28 + 0.35 + 0.4 inch
DrawCustodian(t) ==
  /\ pc[t] = "custodian"
  /\ form[t] = "ack"
  /\ Draw(t, "location", y[t] - In(28) - In(35) - In(40), page[t], row_num[t],
          <<Entry("custodian", page[t], y[t], y[t] - In(28) - In(35) - In(8),
                  <<>>)>>)
  /\ UNCHANGED sig_field_rect

\* len(buildings), line_height
NumBuildings == 6
LineHeight == In(24)

\* _draw_location_section
DrawLocation(t) ==
  /\ pc[t] = "location"
  /\ form[t] = "ack"
  /\ Draw(t, "declaration",
          y[t] - In(32) - NumBuildings * LineHeight - In(15), page[t],
          row_num[t],
          <<Entry("location", page[t], y[t],
                  y[t] - In(32) - (NumBuildings - 1) * LineHeight, <<>>)>>)
  /\ UNCHANGED sig_field_rect

\* the declaration lines of the Transfer form
TrDeclarationLines == 4

\* _draw_declaration: the lines of the paragraph, 0.16 inch apart
DrawDeclaration(t) ==
  /\ pc[t] = "declaration"
  /\ IF form[t] = "ack"
       THEN LET n == Len(AckDeclarationLines)
            IN  Draw(t, "device", y[t] - n * In(16) - In(12), page[t],
                     row_num[t],
                     <<Entry("declaration", page[t], y[t],
                             y[t] - (n - 1) * In(16), AckDeclarationLines)>>)
       ELSE LET n == TrDeclarationLines
            IN  Draw(t, "signature", y[t] - In(25) - n * In(16) - In(20),
                     page[t], row_num[t],
                     <<Entry("declaration", page[t], y[t],
                             y[t] - In(25) - (n - 1) * In(16), <<>>)>>)
  /\ UNCHANGED sig_field_rect

\* _draw_device_selection
DrawDevice(t) ==
  /\ pc[t] = "device"
  /\ form[t] = "ack"
  /\ LET n == Len(AckOfficeLines)
         lab == y[t] - In(28) - In(18) - n * In(13) - In(12)
     IN  Draw(t, "signature", lab - In(18) - In(30), page[t], row_num[t],
              <<Entry("device", page[t], y[t], lab - In(18), AckOfficeLines)>>)
  /\ UNCHANGED sig_field_rect

\* _draw_transferred_to
DrawTransferredTo(t) ==
  /\ pc[t] = "to"
  /\ form[t] = "tr"
  /\ Draw(t, "declaration", y[t] - PartyDrop, page[t], row_num[t],
          <<Entry("to", page[t], y[t], y[t] - In(67) - In(8), <<>>)>>)
  /\ UNCHANGED sig_field_rect

\* _draw_signature without its page-break check
SignatureBreakNever(f, cursor) == FALSE

\* the page-break check of _draw_signature
SignatureBreak(f, cursor) == cursor < SignatureMinY(f)

\* _draw_signature: the label, the box, the rectangle kept for the field
DrawSignature(t) ==
  /\ pc[t] = "signature"
  /\ LET f == form[t]
         break == SignatureBreak(f, y[t])
         pg == IF break THEN page[t] + 1 ELSE page[t]
         y0 == IF break THEN TopOfPage(f) ELSE y[t]
         y2 == y0 - In(12)
         y1 == y2 - BoxHeight(f)
         x1 == Margin(f)
         x2 == Margin(f) + BoxWidth
         fresh == IF break THEN <<Entry("showPage", page[t], 0, 0, <<>>)>>
                  ELSE <<>>
     IN  /\ sig_field_rect' = [sig_field_rect EXCEPT ![f] = <<x1, y1, x2, y2>>]
         /\ Draw(t, "save", y2, pg, row_num[t],
                 fresh \o <<Entry("sig_label", pg, y0, y0, <<>>),
                            Entry("sig_box", pg, y2, y1, <<>>),
                            Entry("sig_help", pg, y1 - In(12), y1 - In(12),
                                  <<>>)>>)

\* c.save() of a canvas opened on the output path: the drawn pages are
\* written there before the signature field is added
SaveToPath(t) ==
  /\ pc[t] = "save"
  /\ files' = [n \in DOMAIN files \cup {filepath[t]} |->
                 IF n = filepath[t]
                   THEN [by |-> callno[t], form |-> form[t],
                         pages |-> page[t] + 1, annot_page |-> 0,
                         rect |-> NoRect]
                   ELSE files[n]]
  /\ pc' = [pc EXCEPT ![t] = "write"]
  /\ ops' = [ops EXCEPT ![t] = @ \o <<Entry("save", page[t], 0, 0, <<>>)>>]
  /\ UNCHANGED <<logo_exists, item_widgets, sig_field_rect, ncalls, history, gui_msg, via,
                 callno, form, data, filename, counter, filepath, y, page,
                 row_num>>

\* c.save(): the document is complete in memory
Save(t) ==
  /\ pc[t] = "save"
  /\ Draw(t, "write", y[t], page[t], row_num[t],
          <<Entry("save", page[t], 0, 0, <<>>)>>)
  /\ UNCHANGED sig_field_rect

\* int(v) of a length in points
IntPt(v) == IF v >= 0 THEN v \div Pt ELSE -((-v) \div Pt)

\* sig_field_ref = writer._add_object(sig_field)
sig_field_ref == "sig_field_ref"

\* the document with the field appended to the annotations of every page
DocumentAnnotatesAllPages(t) ==
  LET rect == sig_field_rect[form[t]]
  IN  [by |-> callno[t],
       form |-> form[t],
       pages |-> page[t] + 1,
       annot_page |-> IF rect # NoRect THEN page[t] + 1 ELSE 0,
       rect |-> IF rect # NoRect THEN [i \in 1..4 |-> IntPt(rect[i])]
                ELSE NoRect,
       annots |-> [p \in 1..(page[t] + 1) |->
                     IF rect # NoRect THEN <<sig_field_ref>> ELSE <<>>],
       fields |-> IF rect # NoRect THEN <<sig_field_ref>> ELSE <<>>,
       sig_flags |-> IF rect # NoRect THEN 3 ELSE 0]

\* the document _add_signature_field writes: its pages, and when a rectangle
\* was recorded the signature field: its rectangle, the /Annots list of each
\* page, /Fields and /SigFlags of the /AcroForm (0: there is no /AcroForm)
Document(t) ==
  LET rect == sig_field_rect[form[t]]
  IN  [by |-> callno[t],
       form |-> form[t],
       pages |-> page[t] + 1,
       annot_page |-> IF rect # NoRect THEN page[t] + 1 ELSE 0,
       rect |-> IF rect # NoRect THEN [i \in 1..4 |-> IntPt(rect[i])]
                ELSE NoRect,
       annots |-> [p \in 1..(page[t] + 1) |->
                     IF rect # NoRect /\ p = page[t] + 1
                       THEN <<sig_field_ref>> ELSE <<>>],
       fields |-> IF rect # NoRect THEN <<sig_field_ref>> ELSE <<>>,
       sig_flags |-> IF rect # NoRect THEN 3 ELSE 0]

\* open(output_path, "wb"): the file is created, or replaced if it exists
WriteFile(fs, path, doc) ==
  [n \in DOMAIN fs \cup {path} |-> IF n = path THEN doc ELSE fs[n]]

\* a generate() call that returned: its inputs and the path it returned
Returned(t) ==
  [no |-> callno[t], via |-> via[t], form |-> form[t], data |-> data[t],
   filename |-> filename[t], path |-> filepath[t]]

\* _add_signature_field writes the file and generate() returns the path
Write(t) ==
  /\ pc[t] = "write"
  /\ files' = WriteFile(files, filepath[t], Document(t))
  /\ history' = Append(history, Returned(t))
  /\ gui_msg' = IF via[t] = "gui" THEN "success" ELSE gui_msg
  /\ pc' = [pc EXCEPT ![t] = "idle"]
  /\ UNCHANGED <<logo_exists, item_widgets, sig_field_rect, ncalls, via, callno, form, data,
                 filename, counter, filepath, y, page, row_num, ops>>

\* the steps of a generate() call after its start
Run(t) ==
  \/ Probe(t)
  \/ ProbeLoop(t)
  \/ DrawHeader(t)
  \/ DrawDate(t)
  \/ DrawTransferredFrom(t)
  \/ DrawTableHeader(t)
  \/ DrawTableRow(t)
  \/ EndTable(t)
  \/ AckPageCheck(t)
  \/ DrawCustodian(t)
  \/ DrawLocation(t)
  \/ DrawDeclaration(t)
  \/ DrawDevice(t)
  \/ DrawTransferredTo(t)
  \/ DrawSignature(t)
  \/ Save(t)
  \/ Write(t)

(***************************************************************************)
(* Inputs of the scenarios.                                                *)
(***************************************************************************)
S_pc == <<"p", "c">>
S_pc2 == <<"p", "c", " ", "(", "#", "2", ")">>
S_Al == <<"A", "l">>
S_Bo == <<"B", "o">>

\* row i of a submission; kind 2 gives every row a description that ends
\* like a collision counter
Item(f, i, kind) ==
  IF f = "ack"
    THEN [store_code |-> <<"S">> \o Str(i),
          description |-> IF kind = 2 THEN S_pc2 ELSE S_pc,
          qty |-> Str(i % 3),
          purchase_date |-> <<>>]
    ELSE [store_code |-> <<"S">> \o Str(i),
          asset_name |-> S_pc,
          description |-> IF kind = 2 THEN S_pc2 ELSE <<>>,
          old_asset_no |-> Str(100 + i)]

\* the fields of a submission other than its rows
Party(f) ==
  IF f = "ack" THEN [emp_id |-> <<"7">>, custodian_name |-> S_Al]
  ELSE [from_emp_id |-> <<"7">>, from_name |-> S_Al,
        to_emp_id |-> <<"8">>, to_name |-> S_Bo]

\* a submission of form f with n rows
FormData(f, n, kind) ==
  (RowsKey(f) :> [i \in 1..n |-> Item(f, i, kind)]) @@ Party(f)

Input(f, d, override) == [form |-> f, data |-> d, filename |-> override]

\* direct calls of the layout scenarios: every row count up to the bound of
\* the form, and a submission without the rows key
LayoutInputs ==
  {Input("ack", FormData("ack", n, 1), None) : n \in 0..MaxItems}
    \cup {Input("tr", FormData("tr", n, 1), None) : n \in 0..MaxAssets}
    \cup {Input(f, Party(f), None) : f \in Forms}

\* direct calls of the file-naming scenarios
S_x_pdf == <<"x", ".", "p", "d", "f">>
FileInputs ==
  {Input("ack", FormData("ack", 1, 1), None),
   Input("ack", FormData("ack", 1, 2), None),
   Input("ack", FormData("ack", 0, 1), None),
   Input("tr", FormData("tr", 1, 1), None),
   Input("tr", Party("tr"), S_x_pdf)}

\* the state of a form when Generate is pressed: the entries of its rows
\* and of its fields, as typed
BlankWidgets(f) == [k \in {ColKeys(f)[c] : c \in 1..4} |-> <<>>]
SpaceWidgets(f) == [k \in {ColKeys(f)[c] : c \in 1..4} |-> <<" ">>]
TypedWidgets(f) ==
  [k \in {ColKeys(f)[c] : c \in 1..4} |->
     IF k = "description" THEN <<" ">> \o S_pc \o <<" ">> ELSE <<>>]
Gui(f, widgets) ==
  [form |-> f, widgets |-> widgets, name |-> S_Al \o <<" ">>,
   emp_id |-> <<"7">>, to_name |-> S_Bo, to_emp_id |-> <<" ", "8">>]
GuiRows(f) ==
  {<<BlankWidgets(f)>>,
   <<SpaceWidgets(f), BlankWidgets(f)>>,
   <<BlankWidgets(f), TypedWidgets(f), SpaceWidgets(f)>>}
GuiInputs == UNION {{Gui(f, w) : w \in GuiRows(f)} : f \in Forms}

\* a file that was in the output directory before the run
OldDocument ==
  [by |-> 0, form |-> "ack", pages |-> 1, annot_page |-> 0, rect |-> NoRect]

\* the names the output directory may hold before a file-naming run
AckName == Ack_generate_filename(FormData("ack", 1, 1))
OldNames ==
  {AckName, NewFilename(BaseName(AckName), 2),
   NewFilename(BaseName(AckName), 3)}

(***************************************************************************)
(* Specifications.                                                         *)
(***************************************************************************)
InitWith(fileSets, logos) ==
  /\ \E names \in fileSets : files = [n \in names |-> OldDocument]
  /\ logo_exists \in logos
  /\ item_widgets = [f \in Forms |-> <<BlankWidgets(f)>>]
  /\ sig_field_rect = [f \in Forms |-> NoRect]
  /\ ncalls = 0
  /\ history = <<>>
  /\ gui_msg = "none"
  /\ pc = [t \in Threads |-> "idle"]
  /\ via = [t \in Threads |-> "api"]
  /\ callno = [t \in Threads |-> 0]
  /\ form = [t \in Threads |-> "ack"]
  /\ data = [t \in Threads |-> <<>>]
  /\ filename = [t \in Threads |-> <<>>]
  /\ counter = [t \in Threads |-> 0]
  /\ filepath = [t \in Threads |-> <<>>]
  /\ y = [t \in Threads |-> 0]
  /\ page = [t \in Threads |-> 0]
  /\ row_num = [t \in Threads |-> 0]
  /\ ops = [t \in Threads |-> <<>>]

\* File naming: sequential generate() calls of the two forms into an output
\* directory that may hold earlier files.
Init == InitWith(SUBSET OldNames, {FALSE})

Next ==
  \/ ApiCall(1, FileInputs, MaxCalls)
  \/ Run(1)

Spec == Init /\ [][Next]_vars

\* File naming with every started call running on: generate() has no wait and
\* no lock, so a call that can take a step takes it.
SpecFair == Spec /\ WF_vars(Run(1))

\* Layout: generate() calls with every number of rows, from the GUI or
\* directly, with and without the logo file.
InitLayout == InitWith({{}}, {TRUE}) \/ InitWith({{AckName}}, {FALSE})

NextLayout ==
  \/ ApiCall(1, LayoutInputs, MaxLayoutCalls)
  \/ GuiGenerate(1, GuiInputs, MaxLayoutCalls)
  \/ Run(1)

SpecLayout == InitLayout /\ [][NextLayout]_vars

\* Concurrency: generate() calls of two threads that interleave at every
\* step.
InitRace == InitWith({{}, {AckName}}, {FALSE})

RaceInputs ==
  {Input("ack", FormData("ack", 1, 1), None),
   Input("ack", FormData("ack", 2, 1), None),
   Input("tr", FormData("tr", 0, 1), None)}

NextRace == \E t \in Threads : ApiCall(t, RaceInputs, MaxRaceCalls) \/ Run(t)

SpecRace == InitRace /\ [][NextRace]_vars

\* Failures of the file system: os.makedirs, open(output_path, "wb") and
\* writer.write(output_file) may raise OSError.
\* a generate() call that raised: its inputs, the path it had resolved (None
\* before the probe) and the exception that reached its caller
Raised(t, path) ==
  [no |-> callno[t], via |-> via[t], form |-> form[t], data |-> data[t],
   filename |-> filename[t], path |-> path, error |-> "OSError"]

\* the exception leaves generate(): nothing of it is caught on the way
Raise(t, path) ==
  /\ history' = Append(history, Raised(t, path))
  /\ gui_msg' = IF via[t] = "gui" THEN "error" ELSE gui_msg
  /\ pc' = [pc EXCEPT ![t] = "idle"]
  /\ UNCHANGED <<logo_exists, item_widgets, sig_field_rect, ncalls, via, callno, form, data,
                 filename, counter, filepath, y, page, row_num, ops>>

\* os.makedirs(output_dir, exist_ok=True) raises
MakedirsFails(t) ==
  /\ pc[t] = "probe"
  /\ UNCHANGED files
  /\ Raise(t, None)

\* a step of _draw_form, or c.save(), raises: the exception leaves
\* generate() before _add_signature_field is called
DrawFails(t) ==
  /\ pc[t] \notin {"idle", "probe", "probe_loop", "write"}
  /\ history' = Append(history,
                       [Raised(t, filepath[t]) EXCEPT !.error = "drawing"])
  /\ gui_msg' = IF via[t] = "gui" THEN "error" ELSE gui_msg
  /\ pc' = [pc EXCEPT ![t] = "idle"]
  /\ UNCHANGED <<files, logo_exists, item_widgets, sig_field_rect, ncalls, via, callno,
                 form, data, filename, counter, filepath, y, page, row_num,
                 ops>>

\* open(output_path, "wb") raises: no file is created
OpenFails(t) ==
  /\ pc[t] = "write"
  /\ UNCHANGED files
  /\ Raise(t, filepath[t])

\* what writer.write had written when it raised: the file exists at
\* output_path, created or emptied by open, and holds part of the document
PartialDocument(t) == ("partial" :> TRUE) @@ Document(t)

\* writer.write(output_file) raises after open succeeded; the with block
\* closes the file and the exception goes on
WriteFails(t) ==
  /\ pc[t] = "write"
  /\ files' = WriteFile(files, filepath[t], PartialDocument(t))
  /\ Raise(t, filepath[t])

FailInputs ==
  {Input("ack", FormData("ack", 1, 1), None),
   Input("tr", FormData("tr", 0, 1), None)}

InitFail == InitWith({{}}, {FALSE})

NextFail ==
  \/ ApiCall(1, FailInputs, MaxFailCalls)
  \/ Run(1)
  \/ MakedirsFails(1)
  \/ DrawFails(1)
  \/ OpenFails(1)
  \/ WriteFails(1)

SpecFail == InitFail /\ [][NextFail]_vars

\* Logo: generate() calls one after the other, each kept on its own thread so
\* that what it drew stays visible, while the logo file comes and goes
\* between them.
LogoInputs ==
  {Input("ack", FormData("ack", 10, 1), None),
   Input("ack", FormData("ack", 28, 1), None),
   Input("tr", FormData("tr", 11, 1), None)}

\* the logo file is deleted or put back while no call is running
LogoFileChanges ==
  /\ \A t \in Threads : pc[t] = "idle"
  /\ logo_exists' = ~logo_exists
  /\ UNCHANGED <<files, item_widgets, sig_field_rect, ncalls, history,
                 gui_msg, pc, via, callno, form, data, filename, counter,
                 filepath, y, page, row_num, ops>>

InitLogo == InitWith({{}}, {TRUE, FALSE})

NextLogo ==
  \/ \E t \in Threads :
       /\ \A u \in Threads \ {t} : pc[u] = "idle"
       /\ ApiCall(t, LogoInputs, MaxLogoCalls) \/ Run(t)
  \/ LogoFileChanges

SpecLogo == InitLogo /\ [][NextLogo]_vars

\* Forms: the rows of the two forms under the Add, X, Import and Clear
\* buttons.
\* what a handler of the row buttons leaves alone: everything but the rows
\* and the message box
FormFrame ==
  UNCHANGED <<files, logo_exists, sig_field_rect, ncalls, history, pc, via,
              callno, form, data, filename, counter, filepath, y, page,
              row_num, ops>>

\* _add_item_row / _add_asset_row from the Add button: a row of empty entries
AddRow(f) ==
  /\ Len(item_widgets[f]) < MaxFormRows
  /\ item_widgets' = [item_widgets EXCEPT ![f] = Append(@, BlankWidgets(f))]
  /\ UNCHANGED gui_msg
  /\ FormFrame

\* the user types into the entries of an empty row
TypeRow(f) ==
  /\ \E i \in 1..Len(item_widgets[f]) :
       /\ item_widgets[f][i] = BlankWidgets(f)
       /\ item_widgets' = [item_widgets EXCEPT ![f][i] = TypedWidgets(f)]
  /\ UNCHANGED gui_msg
  /\ FormFrame

\* self.item_widgets.pop(row_index)
Pop(rows, row_index) ==
  SubSeq(rows, 1, row_index) \o SubSeq(rows, row_index + 2, Len(rows))

\* _remove_item_row without its test of the number of rows
RemoveRowAlways(f) ==
  /\ \E row_index \in 0..(Len(item_widgets[f]) - 1) :
       /\ item_widgets' = [item_widgets EXCEPT ![f] = Pop(@, row_index)]
       /\ UNCHANGED gui_msg
  /\ FormFrame

\* _remove_item_row / _remove_asset_row from the X button of row row_index
RemoveRow(f) ==
  /\ \E row_index \in 0..(Len(item_widgets[f]) - 1) :
       IF Len(item_widgets[f]) <= 1
         THEN /\ gui_msg' = "warning"
              /\ UNCHANGED item_widgets
         ELSE /\ item_widgets' =
                   [item_widgets EXCEPT ![f] = Pop(@, row_index)]
              /\ UNCHANGED gui_msg
  /\ FormFrame

\* clear_form: the rows after the first are destroyed, the first is emptied
ClearForm(f) ==
  /\ item_widgets' = [item_widgets EXCEPT ![f] = <<BlankWidgets(f)>>]
  /\ UNCHANGED gui_msg
  /\ FormFrame

\* A header cell is modelled by whether it has a value and by the set of the
\* substrings tested by the import that its lower-cased text contains.
Header(words) == [value |-> TRUE, contains |-> words]
EmptyHeader == [value |-> FALSE, contains |-> {}]
\* the field a header is mapped to by the if/elif chain, or None
HeaderKey(f, cell) ==
  LET h == cell.contains
  IN
  IF "store" \in h \/ "code" \in h THEN "store_code"
  ELSE IF f = "ack"
    THEN IF "description" \in h \/ "item" \in h THEN "description"
         ELSE IF "qty" \in h \/ "quantity" \in h THEN "qty"
         ELSE IF "date" \in h \/ "lpo" \in h \/ "purchase" \in h
           THEN "purchase_date"
         ELSE "none"
    ELSE IF "asset" \in h /\ "name" \in h THEN "asset_name"
         ELSE IF "description" \in h \/ "desc" \in h THEN "description"
         ELSE IF "old" \in h \/ "asset no" \in h THEN "old_asset_no"
         ELSE "none"

\* header_map.get(key, default): the index, from 0, of the last header mapped
\* to the key
HeaderIndex(f, headers, key, default) ==
  LET hits == {i \in 1..Len(headers) : HeaderKey(f, headers[i]) = key}
  IN  IF hits = {} THEN default
      ELSE (CHOOSE i \in hits : \A j \in hits : j <= i) - 1

\* the column each field is read from
Columns(f, headers) ==
  [c \in 1..4 |-> HeaderIndex(f, headers, ColKeys(f)[c], c - 1)]

\* str(value or "")
CellStr(v) == IF v = None THEN <<>> ELSE v

\* the loop over ws.iter_rows(min_row=2) from row k on: the rows of the form
\* and the message box it ends with; a row shorter than a column read from it
\* raises IndexError
RECURSIVE ReadRows(_, _, _, _, _, _)
ReadRows(f, cols, sheet_rows, k, widgets, items_added) ==
  IF k > Len(sheet_rows) THEN [rows |-> widgets, msg |-> "success"]
  ELSE LET row_values == sheet_rows[k]
       IN  IF \A i \in 1..Len(row_values) :
                row_values[i] = None \/ row_values[i] = <<>>
             THEN ReadRows(f, cols, sheet_rows, k + 1, widgets, items_added)
           ELSE IF \E c \in 1..4 : cols[c] >= Len(row_values)
             THEN [rows |-> widgets, msg |-> "error"]
           ELSE LET item_data ==
                      [key \in {ColKeys(f)[c] : c \in 1..4} |->
                         CellStr(row_values[
                           cols[CHOOSE c \in 1..4 : ColKeys(f)[c] = key]
                             + 1])]
                IN  ReadRows(f, cols, sheet_rows, k + 1,
                             IF items_added = 0
                               THEN [widgets EXCEPT ![1] = item_data]
                               ELSE Append(widgets, item_data),
                             items_added + 1)

\* _import_from_excel after the file dialog: the rows of the form and the
\* message box shown
import_from_excel(f, widgets, wb) ==
  IF ~wb.chosen THEN [rows |-> widgets, msg |-> "none"]
  ELSE IF ~wb.readable THEN [rows |-> widgets, msg |-> "error"]
  ELSE LET headers == SelectSeq(wb.header, LAMBDA h : h.value)
       IN  IF headers = <<>> THEN [rows |-> widgets, msg |-> "error"]
           ELSE ReadRows(f, Columns(f, headers), wb.rows, 1,
                         <<BlankWidgets(f)>>, 0)

\* the Import button with workbook wb chosen in the file dialog, or the
\* dialog cancelled
Import(f, wb) ==
  LET r == import_from_excel(f, item_widgets[f], wb)
  IN  /\ item_widgets' = [item_widgets EXCEPT ![f] = r.rows]
      /\ gui_msg' = IF r.msg = "none" THEN gui_msg ELSE r.msg
      /\ FormFrame

\* the cells of data row i of a sheet of n columns
SheetRow(i, n) == [c \in 1..n |-> IF c = 3 THEN None ELSE <<"S">> \o Str(i + c)]
\* the workbooks of the scenarios: unreadable; no header; four columns with
\* an empty row between two data rows; four columns in another order; two
\* columns; two columns with only an empty data row
Workbook(readable, header, rows) ==
  [chosen |-> TRUE, readable |-> readable, header |-> header, rows |-> rows]
Cancelled ==
  [chosen |-> FALSE, readable |-> FALSE, header |-> <<>>, rows |-> <<>>]
Workbooks ==
  {Workbook(FALSE, <<>>, <<>>),
   Workbook(TRUE, <<EmptyHeader>>, <<>>),
   Workbook(TRUE,
            <<Header({"store", "code"}), Header({"item", "asset", "name"}),
              Header({"qty", "description"}), Header({"date", "old"})>>,
            <<SheetRow(1, 4), [c \in 1..4 |-> None], SheetRow(2, 4)>>),
   Workbook(TRUE,
            <<Header({"description"}), EmptyHeader, Header({"code"}),
              Header({"lpo", "asset no"})>>,
            <<SheetRow(3, 4)>>),
   Workbook(TRUE, <<Header({"store", "code"}), Header({"description"})>>,
            <<SheetRow(1, 2), SheetRow(2, 2)>>),
   Workbook(TRUE, <<Header({"store", "code"}), Header({"description"})>>,
            <<[c \in 1..2 |-> None]>>)}

ImportFromExcel(f) == \E wb \in Workbooks \cup {Cancelled} : Import(f, wb)

InitForm == InitWith({{}}, {FALSE})

NextForm ==
  \E f \in Forms :
    \/ AddRow(f)
    \/ TypeRow(f)
    \/ RemoveRow(f)
    \/ ClearForm(f)
    \/ ImportFromExcel(f)

SpecForm == InitForm /\ [][NextForm]_vars

\* Submission: the Generate button of each form pressed on rows as typed.
\* the rows on screen when Generate is pressed: those of GuiRows, and two
\* typed rows around an empty one
GenerateRows(f) ==
  GuiRows(f)
    \cup {<<TypedWidgets(f), BlankWidgets(f),
            [TypedWidgets(f) EXCEPT !["store_code"] = <<"S", " ">>]>>}

InitGenerate ==
  /\ files = <<>>
  /\ logo_exists = FALSE
  /\ \E a \in GenerateRows("ack") : \E b \in GenerateRows("tr") :
       item_widgets = [f \in Forms |-> IF f = "ack" THEN a ELSE b]
  /\ sig_field_rect = [f \in Forms |-> NoRect]
  /\ ncalls = 0
  /\ history = <<>>
  /\ gui_msg = "none"
  /\ pc = [t \in Threads |-> "idle"]
  /\ via = [t \in Threads |-> "api"]
  /\ callno = [t \in Threads |-> 0]
  /\ form = [t \in Threads |-> "ack"]
  /\ data = [t \in Threads |-> <<>>]
  /\ filename = [t \in Threads |-> <<>>]
  /\ counter = [t \in Threads |-> 0]
  /\ filepath = [t \in Threads |-> <<>>]
  /\ y = [t \in Threads |-> 0]
  /\ page = [t \in Threads |-> 0]
  /\ row_num = [t \in Threads |-> 0]
  /\ ops = [t \in Threads |-> <<>>]

NextGenerate ==
  \/ GuiGenerate(1, {Gui(f, item_widgets[f]) : f \in Forms}, MaxGenerateCalls)
  \/ Run(1)

SpecGenerate == InitGenerate /\ [][NextGenerate]_vars

\* Filenames: _generate_filename of either generator applied to one
\* submission, its fields drawn from short texts with blanks and characters
\* that are not allowed in filenames.
Missing == <<"missing">>
TextChars == {"a", " ", "*"}

RECURSIVE Texts(_)
Texts(n) ==
  IF n = 0 THEN {<<>>}
  ELSE LET shorter == Texts(n - 1)
       IN  shorter \cup {Append(s, ch) : s \in shorter, ch \in TextChars}

\* one text for each character of invalid_chars, the character twice in it
InvalidTexts == {<<invalid_chars[k], "a", invalid_chars[k]>> : k \in 1..Len(invalid_chars)}

\* a description of 31 characters whose 30th is a blank
LongText == [i \in 1..31 |-> IF i = 30 THEN " " ELSE IF i = 31 THEN "b" ELSE "a"]
\* a description of 32 characters with a character to replace after the 30th
LongInvalidText == [i \in 1..32 |-> IF i \in {2, 32} THEN "/" ELSE "a"]

FieldTexts == Texts(MaxFieldLen) \cup InvalidTexts \cup {Missing}
ShortFieldTexts == Texts(MaxFieldLen - 1) \cup {<<"a", "/">>, Missing}
DescriptionTexts == FieldTexts \cup {LongText, LongInvalidText}

\* key: value, or nothing when the key is missing
Opt(key, value) == IF value = Missing THEN <<>> ELSE key :> value

AckItemLists ==
  {<<>>} \cup {<<Opt("description", d)>> : d \in DescriptionTexts}
    \cup {<<Opt("description", d), [description |-> S_pc]>> :
            d \in {<<>>, <<" ">>, <<"a">>, Missing}}

AckNameInputs ==
  {Opt("emp_id", e) @@ Opt("custodian_name", n) @@ ("items" :> i) :
     e \in FieldTexts, n \in ShortFieldTexts, i \in AckItemLists}
    \cup {Opt("emp_id", e) @@ Opt("custodian_name", n) :
            e \in FieldTexts, n \in ShortFieldTexts}

TrNameInputs ==
  {Opt("from_emp_id", a) @@ Opt("from_name", b) @@ Opt("to_emp_id", c)
     @@ Opt("to_name", d) :
     a \in ShortFieldTexts, b \in ShortFieldTexts, c \in ShortFieldTexts,
     d \in ShortFieldTexts}

\* generate(): filename = self._generate_filename(form_data)
GenerateFilename(t) ==
  /\ pc[t] = "idle"
  /\ filename' = [filename EXCEPT ![t] = generate_filename(form[t], data[t])]
  /\ pc' = [pc EXCEPT ![t] = "probe"]
  /\ UNCHANGED <<files, logo_exists, item_widgets, sig_field_rect, ncalls, history, gui_msg,
                 via, callno, form, data, counter, filepath, y, page, row_num,
                 ops>>

\* the state before one function is applied to one argument drawn from jobs
InitJob(jobs) ==
  /\ files = <<>>
  /\ logo_exists = FALSE
  /\ item_widgets = [f \in Forms |-> <<BlankWidgets(f)>>]
  /\ sig_field_rect = [f \in Forms |-> NoRect]
  /\ ncalls = 0
  /\ history = <<>>
  /\ gui_msg = "none"
  /\ pc = [t \in Threads |-> "idle"]
  /\ via = [t \in Threads |-> "api"]
  /\ callno = [t \in Threads |-> 0]
  /\ \E job \in jobs :
       /\ form = [t \in Threads |-> job.form]
       /\ data = [t \in Threads |-> job.data]
  /\ filename = [t \in Threads |-> <<>>]
  /\ counter = [t \in Threads |-> 0]
  /\ filepath = [t \in Threads |-> <<>>]
  /\ y = [t \in Threads |-> 0]
  /\ page = [t \in Threads |-> 0]
  /\ row_num = [t \in Threads |-> 0]
  /\ ops = [t \in Threads |-> <<>>]

InitName ==
  InitJob({[form |-> "ack", data |-> d] : d \in AckNameInputs}
            \cup {[form |-> "tr", data |-> d] : d \in TrNameInputs})

NextName == GenerateFilename(1)

SpecName == InitName /\ [][NextName]_vars

\* Text fitting: the word-wrap loop, _truncate_text and the cut of a table
\* cell, each applied to one argument.
WrapWords == {<<"i">>, <<"a">>, <<"W", "W">>}

RECURSIVE Paragraphs(_)
Paragraphs(n) ==
  IF n = 0 THEN {<<>>}
  ELSE LET shorter == Paragraphs(n - 1)
       IN  shorter \cup {Append(ws, w) : ws \in shorter, w \in WrapWords}

\* widths to fit in, from narrower than any glyph to wider than every text
FitWidths == {k * Pt : k \in {0, 1, 3, 5, 12, 16, 22, 40}}

WrapJobs ==
  {[form |-> "ack",
    data |-> [words |-> ws, max_width |-> w, font_name |-> fs[1],
              font_size |-> fs[2]]] :
     ws \in Paragraphs(MaxWords), w \in FitWidths,
     fs \in {<<"Helvetica-BoldOblique", 9>>, <<"Helvetica", 8>>}}

TruncateChars == {"i", "W", "."}

RECURSIVE TruncateTexts(_)
TruncateTexts(n) ==
  IF n = 0 THEN {<<>>}
  ELSE LET shorter == TruncateTexts(n - 1)
       IN  shorter \cup {Append(s, ch) : s \in shorter, ch \in TruncateChars}

TruncateJobs ==
  {[form |-> "tr", data |-> [text |-> s, max_width |-> w]] :
     s \in TruncateTexts(MaxTextLen), w \in FitWidths}

\* a text of n characters, no two neighbours equal
CellTextOf(n) == [i \in 1..n |-> Digit(i % 10)]

CellJobs ==
  {[form |-> f,
    data |-> (RowsKey(f) :>
                <<[k \in {ColKeys(f)[c] : c \in 1..4} |-> CellTextOf(n)]>>)] :
     f \in Forms, n \in 0..MaxCellLen}
    \cup {[form |-> f, data |-> (RowsKey(f) :> <<[store_code |-> S_pc]>>)] :
            f \in Forms}

\* what applying a function to the argument leaves alone
TextFrame ==
  UNCHANGED <<files, logo_exists, item_widgets, sig_field_rect, ncalls, history, gui_msg,
              via, callno, form, data, filename, counter, filepath, y, page,
              row_num>>

\* the word-wrap loop of _draw_declaration and _draw_device_selection
WrapParagraph(t) ==
  /\ pc[t] = "idle"
  /\ "words" \in DOMAIN data[t]
  /\ ops' = [ops EXCEPT ![t] =
              <<Entry("declaration", page[t], y[t], y[t],
                      WordWrap(data[t].words, data[t].font_name,
                               data[t].font_size, data[t].max_width))>>]
  /\ pc' = [pc EXCEPT ![t] = "wrapped"]
  /\ TextFrame

\* _truncate_text(c, text, max_width, "Helvetica", 10)
TruncateText(t) ==
  /\ pc[t] = "idle"
  /\ "text" \in DOMAIN data[t]
  /\ ops' = [ops EXCEPT ![t] =
              <<Entry("from", page[t], y[t], y[t],
                      truncate_text(data[t].text, data[t].max_width,
                                    "Helvetica", 10))>>]
  /\ pc' = [pc EXCEPT ![t] = "truncated"]
  /\ TextFrame

\* _truncate_text applied to the text it returned
TruncateAgain(t) ==
  /\ pc[t] = "truncated"
  /\ ops' = [ops EXCEPT ![t] =
              Append(@, Entry("from", page[t], y[t], y[t],
                              truncate_text(ops[t][1].text, data[t].max_width,
                                            "Helvetica", 10)))]
  /\ pc' = [pc EXCEPT ![t] = "truncated_again"]
  /\ TextFrame

\* the cells of the first row of a table
DrawCells(t) ==
  /\ pc[t] = "idle"
  /\ RowsKey(form[t]) \in DOMAIN data[t]
  /\ ops' = [ops EXCEPT ![t] =
              <<Entry("row", page[t], y[t], y[t] - RowHeight(form[t]),
                      RowTexts(form[t], Rows(form[t], data[t]), 0))>>]
  /\ pc' = [pc EXCEPT ![t] = "cells"]
  /\ TextFrame

InitText == InitJob(WrapJobs \cup TruncateJobs \cup CellJobs)

NextText ==
  \/ WrapParagraph(1)
  \/ TruncateText(1)
  \/ TruncateAgain(1)
  \/ DrawCells(1)

SpecText == InitText /\ [][NextText]_vars

\* Radios: _draw_location_section and _draw_device_selection applied to one
\* submission.
buildings == <<"SZH", "J1", "J2", "Student Hub", "Hostel", "Others:">>
floors == <<"Ground", "1st", "2nd", "3rd", "Others:">>
sections == <<"Male", "Female">>

\* is_selected of a radio that is filled by its label alone
is_selected_by_label(label, selected) == label = selected

\* is_selected of a building or floor radio
is_selected(label, selected) ==
  label = selected \/ (label = "Others:" /\ selected = "Others")

\* one loop of _draw_location_section: the radio of each label, and after the
\* "Others:" radio the free text when the selection is "Others"
RECURSIVE RadioColumn(_, _, _, _, _, _)
RadioColumn(group, labels, i, selected, other, top) ==
  IF i > Len(labels) THEN <<>>
  ELSE LET at == top - (i - 1) * LineHeight
       IN  <<Entry(group, 0, at, at,
                   <<labels[i], is_selected(labels[i], selected)>>)>>
             \o (IF labels[i] = "Others:" /\ selected = "Others"
                   THEN <<Entry("other", 0, at, at, <<group, other>>)>>
                   ELSE <<>>)
             \o RadioColumn(group, labels, i + 1, selected, other, top)

\* the submissions of the radio scenarios; a key may be missing
RadioJobs ==
  {[form |-> "ack",
    data |-> [building |-> b, floor |-> fl, section |-> "Male",
              device_type |-> dv, building_other |-> "Annex",
              floor_other |-> "5th"]] :
     b \in {"", "SZH", "Hostel", "Others", "Others:", "szh"},
     fl \in {"", "Ground", "3rd", "Others", "Others:"},
     dv \in {"Office", "Lab", "", "lab"}}
    \cup {[form |-> "ack", data |-> [section |-> sc]] :
            sc \in {"", "Female", "Others"}}

\* the radios of _draw_location_section
DrawLocationRadios(t) ==
  /\ pc[t] = "idle"
  /\ "section" \in DOMAIN data[t]
  /\ LET d == data[t]
         top == y[t] - In(32)
     IN  ops' = [ops EXCEPT ![t] =
                   RadioColumn("building", buildings, 1, Get(d, "building", ""),
                               Get(d, "building_other", ""), top)
                     \o RadioColumn("floor", floors, 1, Get(d, "floor", ""),
                                    Get(d, "floor_other", ""), top)
                     \o [i \in 1..Len(sections) |->
                           Entry("section", 0, top - (i - 1) * LineHeight,
                                 top - (i - 1) * LineHeight,
                                 <<sections[i],
                                   sections[i] = Get(d, "section", "")>>)]]
  /\ pc' = [pc EXCEPT ![t] = "location_radios"]
  /\ TextFrame

\* the radios of _draw_device_selection
DrawDeviceRadios(t) ==
  /\ pc[t] = "location_radios"
  /\ LET device_type == Get(data[t], "device_type", "")
         office == y[t] - In(28)
         lab == office - In(18) - Len(AckOfficeLines) * In(13) - In(12)
     IN  ops' = [ops EXCEPT ![t] =
                   @ \o <<Entry("device", 0, office, office,
                                <<"Office", device_type = "Office">>),
                          Entry("device", 0, lab, lab,
                                <<"Lab", device_type = "Lab">>)>>]
  /\ pc' = [pc EXCEPT ![t] = "device_radios"]
  /\ TextFrame

InitRadio == InitJob(RadioJobs)

NextRadio ==
  \/ DrawLocationRadios(1)
  \/ DrawDeviceRadios(1)

SpecRadio == InitRadio /\ [][NextRadio]_vars

(***************************************************************************)
(* Properties.                                                             *)
(***************************************************************************)
\* the call of thread t has its output path and has not yet written it
Resolved(t) == pc[t] \notin {"idle", "probe", "probe_loop"}

\* name without its ".pdf" suffix
Stem(name) ==
  SubSeq(name, 1, CHOOSE k \in 0..Len(name) : SubSeq(name, 1, k) \o S_Pdf = name)

\* name with " (#k)" inserted before ".pdf"
Numbered(name, k) ==
  Stem(name) \o <<" ", "(", "#">> \o Str(k) \o <<")">> \o S_Pdf

\* the smallest k >= 2 for which the numbered name is not among names
SmallestFree(names, name) ==
  CHOOSE k \in 2..(Cardinality(names) + 2) :
    /\ Numbered(name, k) \notin names
    /\ \A j \in 2..(k - 1) : Numbered(name, j) \in names

\* C1: across sequential generate() calls every call writes to a path that
\* did not exist: from the probe to the write the resolved path is not in
\* the output directory, every file a call returned still holds that call's
\* document (so no two calls share a path and none overwrites another), and
\* a write adds exactly one file and leaves every other file as it was.
C1_FreshPath ==
  /\ [](/\ \A t \in Threads : Resolved(t) => filepath[t] \notin DOMAIN files
        /\ \A i \in 1..Len(history) :
             /\ history[i].path \in DOMAIN files
             /\ files[history[i].path].by = history[i].no)
  /\ [][\A t \in Threads :
          (pc[t] = "write" /\ pc'[t] = "idle") =>
            /\ filepath[t] \notin DOMAIN files
            /\ DOMAIN files' = DOMAIN files \cup {filepath[t]}
            /\ Cardinality(DOMAIN files') = Cardinality(DOMAIN files) + 1
            /\ \A n \in DOMAIN files : files'[n] = files[n]]_vars

\* C1 witness: three calls have returned, the last one under a numbered name
\* because its own name was taken.
C1_Witness ==
  /\ Len(history) >= 3
  /\ history[3].path # history[3].filename

\* C2: _get_unique_filepath returns the name itself when it does not exist,
\* and otherwise the name with " (#k)" before ".pdf" for the smallest k >= 2
\* whose name does not exist; the path returned does not exist.
C2_UniquePath ==
  \A t \in Threads :
    Resolved(t) =>
      /\ filepath[t] =
           IF filename[t] \notin DOMAIN files THEN filename[t]
           ELSE Numbered(filename[t], SmallestFree(DOMAIN files, filename[t]))
      /\ filepath[t] \notin DOMAIN files

\* C2 witness: the name and its (#2) exist, and the probe has returned (#3).
C2_Witness ==
  \E t \in Threads :
    /\ Resolved(t)
    /\ filename[t] \in DOMAIN files
    /\ Numbered(filename[t], 2) \in DOMAIN files
    /\ filepath[t] = Numbered(filename[t], 3)

\* the call of thread t repeats the call before it: same form, same data,
\* no filename override in either
RepeatsLast(t) ==
  /\ Resolved(t)
  /\ history # <<>>
  /\ LET prev == history[Len(history)]
     IN  /\ prev.form = form[t]
         /\ prev.data = data[t]
         /\ prev.filename = generate_filename(prev.form, prev.data)
         /\ filename[t] = generate_filename(form[t], data[t])

\* C3 as stated: the second of two calls with identical data gets the first
\* call's file name with " (#2)" before ".pdf", whatever the directory holds.
C3_Original ==
  \A t \in Threads :
    RepeatsLast(t) =>
      /\ filepath[t] # history[Len(history)].path
      /\ filepath[t] = Numbered(history[Len(history)].path, 2)

\* C3 amended: the two files are distinct, and the second name is the first
\* with " (#2)" before ".pdf" exactly when the output directory held neither
\* the generated name nor its (#2) name before the first call.
C3_SecondName ==
  \A t \in Threads :
    RepeatsLast(t) =>
      LET first == history[Len(history)].path
          before == DOMAIN files \ {first}
      IN  /\ filepath[t] # first
          /\ filepath[t] = Numbered(first, 2) <=>
               /\ filename[t] \notin before
               /\ Numbered(filename[t], 2) \notin before

\* C3 witness: a repeated call that got the first name with " (#2)".
C3_Witness ==
  \E t \in Threads :
    /\ RepeatsLast(t)
    /\ filepath[t] = Numbered(history[Len(history)].path, 2)

\* C4 as stated: two concurrent calls whose data give the same file name
\* never settle on the same output path.
C4_DistinctPaths ==
  \A t1 \in Threads : \A t2 \in Threads \ {t1} :
    (Resolved(t1) /\ Resolved(t2) /\ filename[t1] = filename[t2]) =>
      filepath[t1] # filepath[t2]

\* the table of the call of thread t is complete
TableDone(t) ==
  /\ ops[t] # <<>>
  /\ pc[t] \notin {"probe", "probe_loop", "header", "date", "from", "table",
                   "rows"}

IsRow(e) == e.op = "row"
\* the data rows a call has drawn, in order
RowsDrawn(t) == SelectSeq(ops[t], IsRow)
\* the rows of the submission of thread t
Submitted(t) == Rows(form[t], data[t])

C6_HeaderOnEveryPage ==
  \A t \in Threads :
    form[t] = "ack" =>
      \A i \in 1..Len(ops[t]) :
        LET o == ops[t]
        IN  o[i].op = "row" =>
              /\ i > 3
              /\ o[i - 1].op \in {"header", "row"}
              /\ o[i - 1].page = o[i].page
              /\ o[i - 1].bottom = o[i].top
              /\ \E j \in 1..(i - 1) :
                   /\ o[j].op = "header"
                   /\ o[j].page = o[i].page
                   /\ o[j].bottom >= o[i].top
              /\ IF o[i - 2].op = "showPage"
                   THEN /\ o[i - 3].op \in {"header", "row"}
                        /\ o[i - 3].bottom - RowHeight("ack") < AckTableFloor
                        /\ o[i].page = o[i - 3].page + 1
                        /\ o[i - 1].op = "header"
                        /\ o[i - 1].top = PageHeight - Margin("ack")
                   ELSE o[i - 1].bottom - RowHeight("ack") >= AckTableFloor

\* C6 witness: a data row on the third page of an Acknowledgment table.
C6_Witness ==
  \E t \in Threads :
    /\ form[t] = "ack"
    /\ \E i \in 1..Len(ops[t]) : ops[t][i].op = "row" /\ ops[t][i].page = 2

\* C7: every data row of the Acknowledgment table is one rectangle of the
\* row height on one page, its top edge at or below page_height - top
\* margin - header_height and its bottom edge at or above bottom_margin +
\* 4 inch.
C7_RowsWhole ==
  \A t \in Threads :
    form[t] = "ack" =>
      \A i \in 1..Len(ops[t]) :
        LET e == ops[t][i]
        IN  e.op = "row" =>
              /\ e.top - e.bottom = RowHeight("ack")
              /\ e.top <= PageHeight - Margin("ack") - HeaderHeight("ack")
              /\ e.bottom >= AckBottomMargin + In(400)

\* C7 witness: the last row that fits on a continuation page: one more row
\* height would cross the reserve.
C7_Witness ==
  \E t \in Threads :
    /\ form[t] = "ack"
    /\ \E i \in 1..Len(ops[t]) :
         /\ ops[t][i].op = "row"
         /\ ops[t][i].page = 1
         /\ ops[t][i].bottom - RowHeight("ack") < AckBottomMargin + In(400)

\* C8: in both forms the rows drawn are the input rows, each once, in input
\* order, numbered from 1; a complete table has max(1, n) rows, and a blank
\* row only when n = 0.
C8_RowCount ==
  \A t \in Threads :
    LET drawn == RowsDrawn(t)
        n == Len(Submitted(t))
    IN  /\ pc[t] = "rows" => Len(drawn) = row_num[t]
        /\ TableDone(t) => Len(drawn) = IF n >= 1 THEN n ELSE 1
        /\ \A k \in 1..Len(drawn) :
             IF k <= n
               THEN /\ Len(drawn[k].text) = 5
                    /\ drawn[k].text[1] = Str(k)
                    /\ drawn[k].text[2] = Submitted(t)[k].store_code
               ELSE n = 0 /\ drawn[k].text = <<>>

\* C8 witness: a complete Acknowledgment table of 33 rows over three pages.
C8_Witness ==
  \E t \in Threads :
    /\ form[t] = "ack"
    /\ TableDone(t)
    /\ Len(Submitted(t)) >= 33
    /\ page[t] >= 2

\* C9: the Transfer form starts a new page only at the start of the
\* signature section, so at most once, and its document has at most two
\* pages.
C9_TransferBreaksOnce ==
  /\ \A t \in Threads :
       form[t] = "tr" =>
         /\ page[t] <= 1
         /\ \A i \in 1..Len(ops[t]) :
              ops[t][i].op = "showPage" =>
                /\ i < Len(ops[t])
                /\ ops[t][i + 1].op = "sig_label"
  /\ \A n \in DOMAIN files : files[n].form = "tr" => files[n].pages <= 2

\* C9 witness: a Transfer document of two pages has been written.
C9_Witness ==
  \E n \in DOMAIN files : files[n].form = "tr" /\ files[n].pages = 2

\* the entries of the sections between the table and the signature
AckBlock == {"custodian", "location", "declaration", "device"}

\* entry i of the call closes a page after its table
BreakAfterTable(o, i) ==
  /\ o[i].op = "showPage"
  /\ \A j \in (i + 1)..Len(o) : o[j].op # "row"

\* C10 as stated: after the table the only page break is the one before the
\* custodian block.
C10_OneBreak ==
  \A t \in Threads :
    form[t] = "ack" =>
      \A i \in 1..Len(ops[t]) :
        (BreakAfterTable(ops[t], i) /\ i < Len(ops[t])) =>
          ops[t][i + 1].op = "custodian"

\* C10 amended: the check before the custodian block breaks the page exactly
\* when cursor - 4.5 inch < bottom_margin; the custodian, location,
\* declaration and device sections are drawn on one page; after the table
\* the only other page break is the one of the 'y < 1.3 inch' test at the
\* start of _draw_signature.
C10_BlockOnOnePage ==
  \A t \in Threads :
    form[t] = "ack" =>
      LET o == ops[t]
      IN  /\ \A i \in 1..Len(o) :
               o[i].op = "custodian" =>
                 LET broke == o[i - 1].op = "showPage"
                     last == IF broke THEN o[i - 2] ELSE o[i - 1]
                     cursor == last.bottom - In(25)
                 IN  /\ last.op = "row"
                     /\ broke <=> cursor - In(450) < AckBottomMargin
                     /\ IF broke
                          THEN /\ o[i].page = last.page + 1
                               /\ o[i].top = PageHeight - Margin("ack")
                          ELSE /\ o[i].page = last.page
                               /\ o[i].top = cursor
          /\ \A i \in 1..Len(o) : \A j \in 1..Len(o) :
               (o[i].op \in AckBlock /\ o[j].op \in AckBlock) =>
                 o[i].page = o[j].page
          /\ \A i \in 1..Len(o) :
               (BreakAfterTable(o, i) /\ i < Len(o)) =>
                 o[i + 1].op \in {"custodian", "sig_label"}

\* C10 witness: the check has started a fresh page and the whole block up to
\* the device section is drawn on it.
C10_Witness ==
  \E t \in Threads :
    /\ form[t] = "ack"
    /\ \E i \in 2..Len(ops[t]) :
         /\ ops[t][i].op = "custodian"
         /\ ops[t][i - 1].op = "showPage"
    /\ \E i \in 1..Len(ops[t]) : ops[t][i].op = "device"

\* the characters that are not allowed in a filename
InvalidSet == {"<", ">", ":", "\"", "/", "\\", "|", "?", "*"}

\* s with every character of InvalidSet replaced by '_'
Sanitized(s) == [i \in 1..Len(s) |-> IF s[i] \in InvalidSet THEN "_" ELSE s[i]]

\* s without its leading and trailing blanks
NonBlank(s) == {i \in 1..Len(s) : s[i] \notin {" ", "\t", "\n"}}
Trimmed(s) ==
  IF NonBlank(s) = {} THEN <<>>
  ELSE SubSeq(s, CHOOSE i \in NonBlank(s) : \A j \in NonBlank(s) : i <= j,
                 CHOOSE i \in NonBlank(s) : \A j \in NonBlank(s) : i >= j)

\* the field of the submission as the filename shows it, before replacement
NameField(d, key) ==
  IF key \notin DOMAIN d \/ Trimmed(d[key]) = <<>> THEN S_Unknown
  ELSE Trimmed(d[key])

\* _generate_filename has returned the name of the submission of thread t
Named(t) == pc[t] = "probe" /\ filename[t] # <<>>

\* C11: the filename of either generator holds no character of
\* < > : " / \ | ? * : it is assembled from the interpolated fields with
\* each such character replaced, one for one, by '_'.
C11_NoInvalidChars ==
  \A t \in Threads :
    Named(t) =>
      /\ \A i \in 1..Len(filename[t]) : filename[t][i] \notin InvalidSet
      /\ filename[t] =
           IF form[t] = "ack"
             THEN Sanitized(NameField(data[t], "emp_id")) \o S_Dash
                    \o Sanitized(NameField(data[t], "custodian_name"))
                    \o S_AckMid \o Sanitized(AckAssetName(data[t])) \o S_Pdf
             ELSE S_TrHead \o Sanitized(NameField(data[t], "from_emp_id"))
                    \o S_Hyphen \o Sanitized(NameField(data[t], "from_name"))
                    \o S_To \o Sanitized(NameField(data[t], "to_emp_id"))
                    \o S_Hyphen \o Sanitized(NameField(data[t], "to_name"))
                    \o S_Pdf

\* C11 witness: an Acknowledgment name built from an emp_id with two '<' and
\* a long description with two '/', one of them cut off.
C11_Witness ==
  \E t \in Threads :
    /\ Named(t)
    /\ form[t] = "ack"
    /\ "emp_id" \in DOMAIN data[t]
    /\ data[t]["emp_id"] = <<"<", "a", "<">>
    /\ "items" \in DOMAIN data[t]
    /\ data[t]["items"] = <<[description |-> LongInvalidText]>>

\* the asset part of the Acknowledgment name as stated: the first item's
\* description, trimmed and cut to 30 characters, or 'Asset'
StatedAssetName(d) ==
  IF \/ "items" \notin DOMAIN d
     \/ d["items"] = <<>>
     \/ "description" \notin DOMAIN d["items"][1]
     \/ Trimmed(d["items"][1]["description"]) = <<>>
    THEN S_Asset
    ELSE LET text == Trimmed(d["items"][1]["description"])
         IN  SubSeq(text, 1, IF Len(text) > 30 THEN 30 ELSE Len(text))

\* C12 as stated: the Acknowledgment filename is
\* '{E} - {N} - acknowledgement form {A}.pdf' with E and N the trimmed field
\* or 'Unknown', and A the first item's description cut to 30 characters, or
\* 'Asset' when there is none or it is empty after trimming; A is not empty.
C12_AckName ==
  \A t \in Threads :
    (Named(t) /\ form[t] = "ack") =>
      /\ StatedAssetName(data[t]) # <<>>
      /\ filename[t] =
           Sanitized(NameField(data[t], "emp_id")) \o S_Dash
             \o Sanitized(NameField(data[t], "custodian_name")) \o S_AckMid
             \o Sanitized(StatedAssetName(data[t])) \o S_Pdf

\* C13: the Transfer filename is
\* 'Asset Transfer - From {a}-{b} to {c}-{d}.pdf', each of the four fields
\* replaced on its own by 'Unknown' when it is missing or empty after
\* trimming; with from_emp_id and from_name both empty the name starts
\* 'Asset Transfer - From Unknown-Unknown to '.
C13_TransferName ==
  \A t \in Threads :
    (Named(t) /\ form[t] = "tr") =>
      LET d == data[t]
          Empty(key) == key \notin DOMAIN d \/ Trimmed(d[key]) = <<>>
          Shown(key) == Sanitized(IF Empty(key) THEN S_Unknown ELSE Trimmed(d[key]))
          start == <<"A", "s", "s", "e", "t", " ", "T", "r", "a", "n", "s",
                     "f", "e", "r", " ", "-", " ", "F", "r", "o", "m", " ",
                     "U", "n", "k", "n", "o", "w", "n", "-", "U", "n", "k",
                     "n", "o", "w", "n", " ", "t", "o", " ">>
      IN  /\ filename[t] =
               S_TrHead \o Shown("from_emp_id") \o S_Hyphen
                 \o Shown("from_name") \o S_To \o Shown("to_emp_id")
                 \o S_Hyphen \o Shown("to_name") \o S_Pdf
          /\ (Empty("from_emp_id") /\ Empty("from_name")) =>
               SubSeq(filename[t], 1, Len(start)) = start

\* C13 witness: a Transfer name for a blank from_emp_id, no from_name, and a
\* to_name that is given.
C13_Witness ==
  \E t \in Threads :
    /\ Named(t)
    /\ form[t] = "tr"
    /\ DOMAIN data[t] = {"from_emp_id", "to_emp_id", "to_name"}
    /\ data[t]["from_emp_id"] = <<" ">>
    /\ data[t]["to_emp_id"] = <<>>
    /\ data[t]["to_name"] = <<"a">>

\* the paragraph of the wrap job of thread t, its lines and its limit
WrapLines(t) == ops[t][1].text
Fits(t, line) ==
  stringWidth(line, data[t].font_name, data[t].font_size) <= data[t].max_width
NotEmpty(line) == line # <<>>

\* C14 as stated: for any words and any max_width the lines joined with
\* single spaces are the words joined with single spaces, and no line is
\* wider than max_width.
C14_WrapAnyWidth ==
  \A t \in Threads :
    pc[t] = "wrapped" =>
      /\ Join(WrapLines(t)) = Join(data[t].words)
      /\ \A l \in 1..Len(WrapLines(t)) : Fits(t, WrapLines(t)[l])

\* the two paragraphs the forms wrap: every word fits, nothing is lost and
\* no line is too wide
ParagraphsFit ==
  /\ Join(AckDeclarationLines) = Join(DeclarationWords)
  /\ \A l \in 1..Len(AckDeclarationLines) :
       stringWidth(AckDeclarationLines[l], "Helvetica-BoldOblique", 9)
         <= PageWidth - 2 * In(60)
  /\ Join(AckOfficeLines) = Join(OfficeWords)
  /\ \A l \in 1..Len(AckOfficeLines) :
       stringWidth(AckOfficeLines[l], "Helvetica", 8)
         <= PageWidth - 2 * In(60) - In(40)

\* C14 amended: the words of the lines, in order, are always the words given.
\* When every word fits in max_width on its own (as in the two paragraphs of
\* the form) the lines joined with single spaces are the text and no line is
\* wider than max_width.  A word wider than max_width is put on a line of
\* its own, which is then too wide, and when it is the first word the loop
\* first emits an empty line.
C14_WrapWhenWordsFit ==
  /\ ParagraphsFit
  /\ \A t \in Threads :
       pc[t] = "wrapped" =>
         LET lines == WrapLines(t)
             words == data[t].words
             allFit == \A k \in 1..Len(words) : Fits(t, words[k])
         IN  /\ Join(SelectSeq(lines, NotEmpty)) = Join(words)
             /\ allFit =>
                  /\ Join(lines) = Join(words)
                  /\ \A l \in 1..Len(lines) : Fits(t, lines[l]) /\ lines[l] # <<>>
             /\ \A l \in 1..Len(lines) :
                  /\ ~Fits(t, lines[l]) =>
                       \E k \in 1..Len(words) : lines[l] = words[k]
                  /\ lines[l] = <<>> =>
                       l = 1 /\ words # <<>> /\ ~Fits(t, words[1])
             /\ (words # <<>> /\ ~Fits(t, words[1])) => lines[1] = <<>>

\* C14 witness: three words that fit are wrapped into two lines.
C14_Witness ==
  \E t \in Threads :
    /\ pc[t] = "wrapped"
    /\ Len(data[t].words) = 3
    /\ \A k \in 1..3 : Fits(t, data[t].words[k])
    /\ Len(WrapLines(t)) = 2
    /\ Len(WrapLines(t)[1]) > 2

\* the argument of the truncation job of thread t and what it returned
Oversized(t) == stringWidth(data[t].text, "Helvetica", 10) > data[t].max_width
Truncated(t) == ops[t][1].text

\* C15: _truncate_text applied to its own result returns it unchanged; a
\* text that fits is returned unchanged; the result for an oversized text is
\* not wider than max_width.
C15_TruncateIdempotent ==
  \A t \in Threads :
    /\ pc[t] = "truncated_again" => ops[t][2].text = ops[t][1].text
    /\ pc[t] \in {"truncated", "truncated_again"} =>
         IF Oversized(t)
           THEN stringWidth(Truncated(t), "Helvetica", 10) <= data[t].max_width
           ELSE Truncated(t) = data[t].text

\* C15 witness: an oversized text was cut to a prefix with an ellipsis, and
\* the function was applied to that result.
C15_Witness ==
  \E t \in Threads :
    /\ pc[t] = "truncated_again"
    /\ Oversized(t)
    /\ Len(Truncated(t)) > 3

\* the lengths of the non-empty prefixes that fit with the ellipsis
FittingPrefixes(t) ==
  {k \in 1..Len(data[t].text) :
     stringWidth(SubSeq(data[t].text, 1, k) \o <<".", ".", ".">>, "Helvetica", 10)
       <= data[t].max_width}

\* C16: for an oversized text _truncate_text returns p + '...' for the
\* longest non-empty prefix p such that p + '...' fits, and the empty string
\* when there is none; an empty text gives the empty string.
C16_LongestPrefix ==
  \A t \in Threads :
    pc[t] = "truncated" =>
      /\ data[t].text = <<>> => Truncated(t) = <<>>
      /\ Oversized(t) =>
           IF FittingPrefixes(t) = {} THEN Truncated(t) = <<>>
           ELSE LET k == CHOOSE k \in FittingPrefixes(t) :
                            \A j \in FittingPrefixes(t) : j <= k
                IN  Truncated(t) = SubSeq(data[t].text, 1, k) \o <<".", ".", ".">>

\* C16 witness: an oversized text of which a prefix of two characters, and
\* none longer, fits with the ellipsis.
C16_Witness ==
  \E t \in Threads :
    /\ pc[t] = "truncated"
    /\ Oversized(t)
    /\ Len(data[t].text) > 3
    /\ Len(Truncated(t)) = 5

\* characters a column holds, floor(column_width / 5.5), for the columns
\* after the index column
StatedLimit(f) == IF f = "ack" THEN <<14, 41, 5, 14>> ELSE <<13, 17, 30, 15>>

\* C17: a cell of a column after the index column shows its text when that
\* has at most floor(column_width / 5.5) characters, and else the prefix of
\* exactly that length, without ellipsis; the index column shows the row
\* number.
C17_CellCut ==
  \A t \in Threads :
    pc[t] = "cells" =>
      LET f == form[t]
          item == data[t][IF f = "ack" THEN "items" ELSE "assets"][1]
          keys == IF f = "ack"
                    THEN <<"store_code", "description", "qty", "purchase_date">>
                    ELSE <<"store_code", "asset_name", "description", "old_asset_no">>
          texts == ops[t][1].text
      IN  /\ Len(texts) = 5
          /\ texts[1] = <<"1">>
          /\ \A c \in 1..4 :
               LET raw == IF keys[c] \in DOMAIN item THEN item[keys[c]] ELSE <<>>
                   limit == StatedLimit(f)[c]
               IN  /\ 2 * ColWidths(f)[c + 1] >= 11 * limit * Pt
                   /\ 2 * ColWidths(f)[c + 1] < 11 * (limit + 1) * Pt
                   /\ texts[c + 1] =
                        IF Len(raw) > limit THEN SubSeq(raw, 1, limit) ELSE raw

\* C17 witness: an Acknowledgment row whose fields have 42 characters: every
\* cell is cut, the description to 41 characters.
C17_Witness ==
  \E t \in Threads :
    /\ pc[t] = "cells"
    /\ form[t] = "ack"
    /\ "description" \in DOMAIN data[t]["items"][1]
    /\ Len(data[t]["items"][1]["description"]) = 42
    /\ Len(ops[t][1].text[3]) = 41

\* C18: every document a generate() call has written carries exactly one
\* signature field: the only annotation of the last page, no annotation on
\* any other page, the same object the single entry of /Fields, and
\* /SigFlags 3.
C18_OneSignatureField ==
  \A i \in 1..Len(history) :
    LET doc == files[history[i].path]
    IN  /\ doc.by = history[i].no
        /\ doc.rect # <<>>
        /\ doc.pages >= 1
        /\ DOMAIN doc.annots = 1..doc.pages
        /\ Len(doc.annots[doc.pages]) = 1
        /\ \A p \in 1..(doc.pages - 1) : doc.annots[p] = <<>>
        /\ doc.fields = doc.annots[doc.pages]
        /\ doc.sig_flags = 3

\* C18 witness: an Acknowledgment document of three pages has been written.
C18_Witness ==
  \E i \in 1..Len(history) :
    /\ history[i].form = "ack"
    /\ files[history[i].path].pages = 3

\* the rectangle the drawing of the call of thread t recorded: that of the
\* signature box it drew
OwnBox(t) ==
  ops[t][CHOOSE i \in 1..Len(ops[t]) : ops[t][i].op = "sig_box"]
OwnRect(t) ==
  <<Margin(form[t]), OwnBox(t).bottom, Margin(form[t]) + In(220), OwnBox(t).top>>

\* C19 as stated: the annotation a call writes has the rectangle that the
\* same call's drawing recorded, also when two calls on one generator
\* instance interleave.
C19_OwnRectangle ==
  [][\A t \in Threads :
       (pc[t] = "write" /\ pc'[t] = "idle") =>
         files'[filepath[t]].rect = [i \in 1..4 |-> IntPt(OwnRect(t)[i])]]_vars

\* C20 as stated: when creating the output directory or writing the output
\* file fails, the caller of generate() gets the failure and no partly
\* written file is at the resolved path.
C20_NoPartialFile ==
  \A i \in 1..Len(history) :
    ("error" \in DOMAIN history[i] /\ history[i].error = "OSError") =>
      (history[i].path \in DOMAIN files =>
         "partial" \notin DOMAIN files[history[i].path])

\* what a call has drawn, the logo image left out
WithoutLogo(t) == SelectSeq(ops[t], LAMBDA e : e.op # "logo")
LogoDrawn(t) == \E i \in 1..Len(ops[t]) : ops[t][i].op = "logo"
\* the call has drawn its whole form and returned
DrewAll(t) ==
  /\ pc[t] = "idle"
  /\ ops[t] # <<>>
  /\ ops[t][Len(ops[t])].op = "save"
  /\ \E i \in 1..Len(history) :
       /\ history[i].no = callno[t]
       /\ history[i].path \in DOMAIN files

\* C22: a missing logo file or a failing drawImage changes nothing but the
\* image: two calls with the same submission, with and without the logo, draw
\* the same titles and sections at the same heights on the same pages, end at
\* the same cursor on the same page, and both return a written file.
C22_LogoOnlyImage ==
  /\ \A t \in Threads :
       (pc[t] = "idle" /\ callno[t] > 0) => DrewAll(t)
  /\ \A t \in Threads :
       pc[t] \notin {"idle", "probe", "probe_loop", "header"} =>
         /\ Len(WithoutLogo(t)) >= Len(HeaderTitles(form[t]))
         /\ \A i \in 1..Len(HeaderTitles(form[t])) :
              /\ WithoutLogo(t)[i].op = "title"
              /\ WithoutLogo(t)[i].top
                   = TopOfPage(form[t]) - HeaderTitles(form[t])[i]
  /\ \A t, u \in Threads :
       (DrewAll(t) /\ DrewAll(u) /\ form[t] = form[u] /\ data[t] = data[u]) =>
         /\ WithoutLogo(t) = WithoutLogo(u)
         /\ y[t] = y[u]
         /\ page[t] = page[u]

\* C22 witness: the same submission generated twice, once with the logo drawn
\* and once without it, each with a page break.
C22_Witness ==
  \E t, u \in Threads :
    /\ DrewAll(t) /\ DrewAll(u)
    /\ form[t] = form[u] /\ data[t] = data[u]
    /\ LogoDrawn(t) /\ ~LogoDrawn(u)
    /\ page[t] > 0

\* the labels of the filled radios of a group, and the free texts drawn
Filled(t, group) ==
  {ops[t][i].text[1] :
     i \in {j \in 1..Len(ops[t]) :
              ops[t][j].op = group /\ ops[t][j].text[2]}}
OtherTexts(t, group) ==
  {ops[t][i].text[2] :
     i \in {j \in 1..Len(ops[t]) :
              ops[t][j].op = "other" /\ ops[t][j].text[1] = group}}
RadiosDrawn(t) == pc[t] = "device_radios"
Labels(seq) == {seq[i] : i \in 1..Len(seq)}

\* C23: each radio group of the Acknowledgment form has at most one filled
\* radio; a building or floor radio is filled iff its label is the selected
\* value, "Others:" also for the selection "Others"; the free text is drawn
\* iff the selection is exactly "Others"; Office and Lab are filled iff
\* device_type is "Office" and "Lab"; building "SZH" with device_type "Lab"
\* fills SZH and Lab and leaves "Others:" and Office empty.
C23_Radios ==
  \A t \in Threads :
    RadiosDrawn(t) =>
      LET d == data[t]
          stated(labels, sel) ==
            {l \in Labels(labels) :
               l = sel \/ (l = "Others:" /\ sel \in {"Others", "Others:"})}
      IN  /\ \A g \in {"building", "floor", "section", "device"} :
               Cardinality(Filled(t, g)) <= 1
          /\ Filled(t, "building") = stated(buildings, Get(d, "building", ""))
          /\ Filled(t, "floor") = stated(floors, Get(d, "floor", ""))
          /\ OtherTexts(t, "building")
               = IF Get(d, "building", "") = "Others"
                   THEN {Get(d, "building_other", "")} ELSE {}
          /\ OtherTexts(t, "floor")
               = IF Get(d, "floor", "") = "Others"
                   THEN {Get(d, "floor_other", "")} ELSE {}
          /\ "Office" \in Filled(t, "device")
               <=> Get(d, "device_type", "") = "Office"
          /\ "Lab" \in Filled(t, "device")
               <=> Get(d, "device_type", "") = "Lab"
          /\ (Get(d, "building", "") = "SZH"
                /\ Get(d, "device_type", "") = "Lab") =>
               /\ Filled(t, "building") = {"SZH"}
               /\ Filled(t, "device") = {"Lab"}

\* C23 witness: the radios of a submission with building "SZH", floor
\* "Others" and device_type "Lab" have been drawn.
C23_Witness ==
  \E t \in Threads :
    /\ RadiosDrawn(t)
    /\ Get(data[t], "building", "") = "SZH"
    /\ Get(data[t], "floor", "") = "Others"
    /\ Get(data[t], "device_type", "") = "Lab"
    /\ Filled(t, "floor") = {"Others:"}
    /\ Filled(t, "device") = {"Lab"}

\* the signature section of the call of thread t has been drawn
SignatureDrawn(t) == \E i \in 1..Len(ops[t]) : ops[t][i].op = "sig_box"
\* the page of the first entry of the given kind
PageOf(t, kind) ==
  ops[t][CHOOSE i \in 1..Len(ops[t]) : ops[t][i].op = kind].page
\* the numbers of table rows for which _draw_signature starts a page
AckSignatureBreakRows == {9, 10, 11, 27, 28, 29, 30}

C25_TransferRowsInside ==
  \A t \in Threads :
    (form[t] = "tr" /\ TableDone(t)) =>
      LET r == RowsDrawn(t)
      IN  /\ Len(r) = NumRows(Submitted(t))
          /\ \A i \in 1..Len(r) :
               /\ r[i].page = 0
               /\ r[i].top - r[i].bottom = RowHeight("tr")
               /\ i > 1 => r[i].top = r[i - 1].bottom
          /\ \A i \in 1..Len(ops[t]) :
               ops[t][i].op = "showPage" =>
                 \A j \in 1..i : ops[t][j].op # "row" \/ ops[t][j].page = 0
          /\ (\A i \in 1..Len(r) : r[i].bottom >= 0)
               <=> Len(Submitted(t)) <= 23

\* C25 witness: a Transfer table of 24 rows is complete and its last row
\* ends below the page; and one of 23 rows would end on it.
C25_Witness ==
  \E t \in Threads :
    /\ form[t] = "tr"
    /\ TableDone(t)
    /\ Len(Submitted(t)) = 24
    /\ RowsDrawn(t)[23].bottom >= 0
    /\ RowsDrawn(t)[24].bottom < 0

\* C26: in both forms no page break follows the drawing of the signature
\* box: the box is on the last page of the document, the page that gets the
\* signature annotation, and the recorded rectangle lies inside that page,
\* 0 <= y1 < y2 <= page height.
C26_BoxOnLastPage ==
  /\ \A t \in Threads :
       SignatureDrawn(t) =>
         LET o == ops[t]
             b == CHOOSE i \in 1..Len(o) : o[i].op = "sig_box"
             rect == sig_field_rect[form[t]]
         IN  /\ \A j \in b..Len(o) : o[j].op # "showPage"
             /\ o[b].page = page[t]
             /\ rect = OwnRect(t)
             /\ 0 <= rect[2] /\ rect[2] < rect[4] /\ rect[4] <= PageHeight
  /\ \A t \in Threads :
       (pc[t] = "idle" /\ SignatureDrawn(t) /\ filepath[t] \in DOMAIN files) =>
         LET doc == files[filepath[t]]
         IN  /\ doc.pages = PageOf(t, "sig_box") + 1
             /\ doc.annot_page = doc.pages
             /\ doc.annots[doc.pages] = <<sig_field_ref>>
             /\ 0 <= doc.rect[2] /\ doc.rect[2] < doc.rect[4]
             /\ doc.rect[4] * Pt <= PageHeight

\* C26 witness: a written document of two pages whose signature box came
\* after a page break of its own section.
C26_Witness ==
  \E t \in Threads :
    /\ pc[t] = "idle"
    /\ SignatureDrawn(t)
    /\ filepath[t] \in DOMAIN files
    /\ files[filepath[t]].pages = 2
    /\ \E i \in 2..Len(ops[t]) :
         ops[t][i].op = "sig_label" /\ ops[t][i - 1].op = "showPage"

\* the existence probes _get_unique_filepath has made so far in the call of
\* thread t: the name itself, then the numbered names below counter
Probes(t) ==
  IF pc[t] = "probe" THEN 0
  ELSE IF counter[t] = 0 THEN 1
  ELSE IF pc[t] = "probe_loop" THEN counter[t] - 1
  ELSE counter[t]

\* C30: with m files in the output directory the probe loop returns after at
\* most m + 1 existence probes, creates or modifies no file itself, and
\* always returns.
C30_ProbeTerminates ==
  /\ [](\A t \in Threads :
          pc[t] # "idle" =>
            Probes(t) <= Cardinality(DOMAIN files)
                           + (IF pc[t] = "probe_loop" THEN 0 ELSE 1))
  /\ [][\A t \in Threads :
          pc[t] \in {"probe", "probe_loop"} => files' = files]_vars
  /\ \A t \in Threads :
       (pc[t] \in {"probe", "probe_loop"}) ~> (pc[t] = "header")

\* C30 witness: three files in the directory, all hit, and the path resolved
\* at the fourth probe.
C30_Witness ==
  \E t \in Threads :
    /\ pc[t] = "header"
    /\ Cardinality(DOMAIN files) = 3
    /\ Probes(t) = 4
    /\ filepath[t] \notin DOMAIN files

\* C27: the output file is opened only after the whole document has been
\* rendered: the files change only in the step that follows c.save(), and a
\* call whose drawing raises ends with the error at its caller, no file at
\* the path it resolved and the output directory as it was.
C27_NoFileBeforeRendered ==
  [][/\ files' # files => \E t \in Threads : pc[t] = "write"
     /\ \A t \in Threads :
          (pc[t] \notin {"idle", "probe", "probe_loop", "write"}
             /\ pc'[t] = "idle") =>
            /\ files' = files
            /\ filepath[t] \notin DOMAIN files'
            /\ Len(history') = Len(history) + 1
            /\ history'[Len(history')].no = callno[t]
            /\ history'[Len(history')].error = "drawing"]_vars

\* C27 witness: a call has raised right after drawing its device section, and
\* there is no file at the path it resolved.
C27_Witness ==
  \E i \in 1..Len(history) :
    /\ "error" \in DOMAIN history[i]
    /\ history[i].error = "drawing"
    /\ history[i].path # None
    /\ history[i].path \notin DOMAIN files
    /\ \E t \in Threads :
         /\ callno[t] = history[i].no
         /\ pc[t] = "idle"
         /\ ops[t] # <<>>
         /\ ops[t][Len(ops[t])].op = "device"

\* C21 as stated: an import that ends with an error leaves the rows of the
\* form, and their contents, as they were before it started.
C21_FailedImportKeepsRows ==
  [][\A f \in Forms : \A wb \in Workbooks :
       (Import(f, wb) /\ import_from_excel(f, item_widgets[f], wb).msg = "error")
         => item_widgets' = item_widgets]_vars

\* C29: each form holds at least one row after any sequence of add, remove,
\* import and clear, so import and clear keep a first row; removing the row
\* of a form with a single row changes nothing, and removing one of several
\* rows takes exactly one away.
C29_AtLeastOneRow ==
  /\ [](\A f \in Forms : Len(item_widgets[f]) >= 1)
  /\ [][\A f \in Forms :
          /\ (RemoveRow(f) /\ Len(item_widgets[f]) = 1)
               => item_widgets' = item_widgets
          /\ (RemoveRow(f) /\ Len(item_widgets[f]) > 1)
               => Len(item_widgets'[f]) = Len(item_widgets[f]) - 1]_vars

\* C29 witness: the remove button of a single typed row has shown its
\* warning and the row is still there, while the other form holds rows of an
\* import.
C29_Witness ==
  \E f \in Forms : \E g \in Forms \ {f} :
    /\ Len(item_widgets[f]) = 1
    /\ item_widgets[f][1] = TypedWidgets(f)
    /\ gui_msg = "warning"
    /\ Len(item_widgets[g]) = 2
    /\ item_widgets[g][1]["store_code"] # <<>>

\* the rows on screen of form f that are not entirely empty, in order
Kept(f) ==
  SelectSeq(item_widgets[f],
            LAMBDA w : \E k \in DOMAIN w : NonBlank(w[k]) # {})

\* C28: Generate calls the generator only with a non-empty row list whose
\* rows each have a field that is non-empty after trimming: the rows that
\* are entirely empty are left out, the others keep their order and are
\* trimmed; when every row is empty the action shows a warning, does not
\* call generate() and creates no file.
C28_GenerateRows ==
  /\ [](\A t \in Threads :
          (via[t] = "gui" /\ callno[t] > 0) =>
            LET r == Submitted(t)
                k == Kept(form[t])
            IN  /\ r # <<>>
                /\ Len(r) = Len(k)
                /\ \A i \in 1..Len(r) :
                     /\ DOMAIN r[i] = DOMAIN k[i]
                     /\ \A key \in DOMAIN r[i] :
                          r[i][key] = Trimmed(k[i][key])
                     /\ \E key \in DOMAIN r[i] : r[i][key] # <<>>)
  /\ [](\A f \in Forms :
          Kept(f) = <<>> =>
            /\ \A n \in DOMAIN files : files[n].form # f
            /\ \A t \in Threads : callno[t] > 0 => form[t] # f)
  /\ [][(ncalls' = ncalls + 1 /\ pc' = pc) =>
          /\ \E f \in Forms : Kept(f) = <<>>
          /\ gui_msg' = "warning"
          /\ files' = files
          /\ history' = history]_vars

\* C28 witness: a call from the Acknowledgment form with two rows, taken from
\* three on screen, while the Transfer form, all empty, has shown its
\* warning.
C28_Witness ==
  \E t \in Threads :
    /\ via[t] = "gui"
    /\ form[t] = "ack"
    /\ pc[t] = "idle"
    /\ filepath[t] \in DOMAIN files
    /\ Len(item_widgets["ack"]) = 3
    /\ Len(Submitted(t)) = 2
    /\ Kept("tr") = <<>>
    /\ gui_msg = "warning"

====
